---- MODULE Spec2Model ----
(***************************************************************************)
(* Model of the comment-thread reconciliation engine of docx-md-comments   *)
(* (src/src/dmc/converter.py).                                             *)
(*                                                                         *)
(* The module holds several sub-models that share one variable list; each  *)
(* specification runs one sub-model and keeps the others idle:             *)
(*   SpecThread  thread validation and topological order                   *)
(*   SpecMarker  marker integrity validation                               *)
(*   SpecAnnot   annotation of comment spans, run twice                    *)
(*   SpecAnchor  spans to milestone tokens and back                        *)
(*   SpecCard    a package's comments written as cards and read back       *)
(*   SpecConv    the two conversions, the destination file and the media   *)
(*   SpecPlace   the cards placed among the blocks of a document           *)
(*   SpecNest    nested cards of a hand-written text read back             *)
(*   SpecState   the state of a comment from text to package and back      *)
(*   SpecRepair  missing comment-end markers inserted, run twice           *)
(*   SpecWrite   the comment-adjacent parts of a package written           *)
(*   SpecRels    relationship and content-type upsert, run twice           *)
(*   SpecSynth   the anchors of the replies synthesized in the story parts *)
(*   SpecReader  the comment parts of a package read                       *)
(*   SpecToken   the milestone token of an id written and read back        *)
(*   SpecTopo    topological_comment_order on any list and parent map      *)
(*   SpecFlat    nested comment-end wrappers flattened                     *)
(***************************************************************************)
EXTENDS Integers, Sequences, FiniteSets, TLC

VARIABLES
  \* ---- thread sub-model (extract_comment_texts_from_markdown, writer order)
  pc_thread,            \* "start" | "validated" | "error" | "ordered"
  ordered_started_ids,  \* ids in first-seen order
  parent_by_id,         \* raw candidate links child -> parent
  thread_result,        \* result of the validation
  emitted,              \* topological_comment_order output
  \* ---- marker sub-model (validate_comment_marker_integrity)
  pc_marker,            \* "start" | "passed" | "failed"
  source_text,          \* the markdown source as a sequence of lexemes
  root_cards,           \* ids of the CARD_META entries without a parent
  marker_issues,        \* the issues the validator collected
  \* ---- annotator sub-model (annotate_markdown_comment_attrs)
  pc_annot,             \* "start" | "once" | "twice"
  graph_maps,           \* parent_map, state_by_id, para_by_id, ... of the call
  span_attrs,           \* the span's attr before the run and after each call
  changed_counts,       \* the changed count each call returned
  \* ---- anchor sub-model (milestone tokens in flowing text)
  pc_anchor,            \* "start" | "encoded" | "decoded"
  ast_inlines,          \* the paragraph's inlines read from the package
  anchor_child_ids,     \* child_ids: the ids that have a parent
  md_prose,             \* the paragraph as markdown text (lexemes)
  decoded_inlines,      \* the inlines read back from the text
  \* ---- card sub-model (comment cards written and read back)
  pc_card,              \* "start" | "encoded" | "decoded" | "error"
  comments,             \* parse_docx_comments: id -> author, date, text, resolved
  parent_map,           \* parse_docx_comments: child id -> parent id
  md_doc,               \* the text: the paragraph and the card blocks after it
  comment_data,         \* extract_comment_texts_from_markdown's result
  \* ---- conversion sub-model (convert_md_to_docx, convert_docx_to_md)
  pc_conv,              \* the step the run has reached, "done" or "error"
  direction,            \* "md2docx" | "docx2md"
  dest_before,          \* the destination file before the run: "absent" | "old"
  dest,                 \* the destination file now
  in_text,              \* md2docx: the source text as lexemes
  reply_cards,          \* md2docx: reply card id -> parent id
  media_files,          \* docx2md: the files of the media directory
  media_before,         \* docx2md: media_before (line 3315)
  files_after,          \* docx2md: files_after of the pruner
  md_links,             \* docx2md: the image link targets of the text
  comment_verdict,      \* md2docx: comment_data (thread part)
  conv_error,           \* the error that ended the run
  \* ---- placement sub-model (cards among the blocks of a document)
  pc_place,             \* "start" | "emitted"
  place_blocks,         \* the top-level paragraphs read from the package
  place_child_ids,      \* child_ids: the ids that have a parent
  place_out,            \* the blocks of the written document
  \* ---- nested-card sub-model (cards of a hand-written text read back)
  pc_nest,              \* "start" | "decoded" | "passed" | "failed"
  nest_doc,             \* the card blocks of the text
  nest_cards,           \* card_by_id of parse_comment_cards_from_doc
  nest_anchored,        \* the ids with a START and an END token in the prose
  nest_issues,          \* the issues of validate_comment_marker_integrity
  \* ---- state sub-model (the state of one comment, text -> package -> text)
  pc_state,             \* "start" | "decoded" | "written" | "emitted"
  st_span,              \* the state key of the comment-start span of the text
  st_cards,             \* the card of the comment, if the text has one
  st_graph,             \* state_by_id of the comment
  st_done,              \* the done attribute written to commentsExtended.xml
  st_out,               \* the annotated span and the card of the text written back
  \* ---- repair sub-model (repair_unbalanced_comment_markers, run twice)
  pc_repair,            \* "start" | "once" | "twice"
  repair_texts,         \* the text before the run and after each call
  repair_counts,        \* the count each call returned
  \* ---- write sub-model (rewrite_comments_extended_state)
  pc_write,             \* "start" | "written"
  w_ordered,            \* ordered_ids of the call
  w_parent,             \* parent_by_id of the call
  w_state,              \* state_by_id of the call
  w_para,               \* para_by_id of the call: the paraId of the cards
  w_durable,            \* durable_by_id of the call: the durableId of the cards
  w_comments,           \* comments.xml: id -> paraId of the comment and of its last paragraph
  w_parts,              \* commentsExtended.xml, commentsIds.xml, commentsExtensible.xml
  w_crc,                \* the checksum of each seed at counter 0
  w_meta,               \* comment_meta_by_id of the call
  \* ---- relationship sub-model (ensure_word_relationship, ..._content_type_override)
  pc_rels,              \* "start" | "once" | "twice"
  rels_op,              \* "relationship" | "content_type"
  rels_parts,           \* the part before the run and after each call
  rels_changed,         \* the value each call returned
  \* ---- synthesis sub-model (ensure_thread_reply_anchors)
  pc_synth,             \* "start" | "returned" | "error"
  syn_stories,          \* the story parts of the package before the call
  syn_ordered,          \* ordered_ids of the call
  syn_parent,           \* parent_by_id of the call
  syn_out,              \* the story parts after the call, the issues raised
  \* ---- reader sub-model (parse_docx_comments)
  pc_reader,            \* "start" | "read"
  rd_comments,          \* the comment elements of comments.xml
  rd_ids,               \* the commentId elements of commentsIds.xml
  rd_ext,               \* the commentEx elements of commentsExtended.xml
  rd_out,               \* comments, para_to_id and parent_map of the reader
  \* ---- token sub-model (milestone_marker_inline, MILESTONE_TOKEN_RE)
  pc_token,             \* "start" | "encoded" | "decoded"
  tok_id,               \* the characters of a comment id
  tok_other,            \* the characters of a second comment id
  tok_edge,             \* "s" | "e"
  tok_text,             \* the token text written for tok_id
  tok_other_text,       \* the token text written for tok_other
  tok_decoded,          \* id and edge read from tok_text
  tok_other_decoded,    \* id and edge read from tok_other_text
  \* ---- topo sub-model (topological_comment_order)
  pc_topo,              \* "start" | "loop" | "done"
  topo_ordered,         \* ordered_ids of the call
  topo_parent,          \* parent_by_id of the call
  topo_pending,         \* pending
  topo_loop,            \* emitted and pending_set of the while loop
  topo_result,          \* the list returned
  \* ---- flat sub-model (normalize_nested_comment_end_markers)
  pc_flat,              \* "loop" | "done"
  flat_input,           \* markdown_text of the call
  flat_updated,         \* updated
  flat_changed          \* changed

varsThread == <<pc_thread, ordered_started_ids, parent_by_id, thread_result, emitted>>

varsMarker == <<pc_marker, source_text, root_cards, marker_issues>>

varsAnnot == <<pc_annot, graph_maps, span_attrs, changed_counts>>

varsAnchor == <<pc_anchor, ast_inlines, anchor_child_ids, md_prose, decoded_inlines>>

varsCard == <<pc_card, comments, parent_map, md_doc, comment_data>>

varsConv ==
  <<pc_conv, direction, dest_before, dest, in_text, reply_cards, media_files,
    media_before, files_after, md_links, comment_verdict, conv_error>>

varsPlace == <<pc_place, place_blocks, place_child_ids, place_out>>

varsNest == <<pc_nest, nest_doc, nest_cards, nest_anchored, nest_issues>>

varsState == <<pc_state, st_span, st_cards, st_graph, st_done, st_out>>

varsRepair == <<pc_repair, repair_texts, repair_counts>>

varsRels == <<pc_rels, rels_op, rels_parts, rels_changed>>

varsSynth == <<pc_synth, syn_stories, syn_ordered, syn_parent, syn_out>>

varsReader == <<pc_reader, rd_comments, rd_ids, rd_ext, rd_out>>

varsToken == <<pc_token, tok_id, tok_other, tok_edge, tok_text, tok_other_text, tok_decoded, tok_other_decoded>>

varsTopo == <<pc_topo, topo_ordered, topo_parent, topo_pending, topo_loop, topo_result>>

varsFlat == <<pc_flat, flat_input, flat_updated, flat_changed>>

varsWrite ==
  <<pc_write, w_ordered, w_parent, w_state, w_para, w_durable, w_comments, w_parts,
    w_crc, w_meta>>

vars == <<varsThread, varsMarker, varsAnnot, varsAnchor, varsCard, varsConv, varsPlace, varsNest, varsState, varsRepair, varsWrite, varsRels, varsSynth, varsReader, varsToken, varsTopo, varsFlat>>

\* What each sub-model leaves alone.
notThread == <<varsMarker, varsAnnot, varsAnchor, varsCard, varsConv, varsPlace, varsNest, varsState, varsRepair, varsWrite, varsRels, varsSynth, varsReader, varsToken, varsTopo, varsFlat>>

notMarker == <<varsThread, varsAnnot, varsAnchor, varsCard, varsConv, varsPlace, varsNest, varsState, varsRepair, varsWrite, varsRels, varsSynth, varsReader, varsToken, varsTopo, varsFlat>>

notAnnot == <<varsThread, varsMarker, varsAnchor, varsCard, varsConv, varsPlace, varsNest, varsState, varsRepair, varsWrite, varsRels, varsSynth, varsReader, varsToken, varsTopo, varsFlat>>

notAnchor == <<varsThread, varsMarker, varsAnnot, varsCard, varsConv, varsPlace, varsNest, varsState, varsRepair, varsWrite, varsRels, varsSynth, varsReader, varsToken, varsTopo, varsFlat>>

notCard == <<varsThread, varsMarker, varsAnnot, varsAnchor, varsConv, varsPlace, varsNest, varsState, varsRepair, varsWrite, varsRels, varsSynth, varsReader, varsToken, varsTopo, varsFlat>>

notConv == <<varsThread, varsMarker, varsAnnot, varsAnchor, varsCard, varsPlace, varsNest, varsState, varsRepair, varsWrite, varsRels, varsSynth, varsReader, varsToken, varsTopo, varsFlat>>

notPlace == <<varsThread, varsMarker, varsAnnot, varsAnchor, varsCard, varsConv, varsNest, varsState, varsRepair, varsWrite, varsRels, varsSynth, varsReader, varsToken, varsTopo, varsFlat>>

notNest == <<varsThread, varsMarker, varsAnnot, varsAnchor, varsCard, varsConv, varsPlace, varsState, varsRepair, varsWrite, varsRels, varsSynth, varsReader, varsToken, varsTopo, varsFlat>>

notState == <<varsThread, varsMarker, varsAnnot, varsAnchor, varsCard, varsConv, varsPlace, varsNest, varsRepair, varsWrite, varsRels, varsSynth, varsReader, varsToken, varsTopo, varsFlat>>

notRepair == <<varsThread, varsMarker, varsAnnot, varsAnchor, varsCard, varsConv, varsPlace, varsNest, varsState, varsWrite, varsRels, varsSynth, varsReader, varsToken, varsTopo, varsFlat>>

notWrite == <<varsThread, varsMarker, varsAnnot, varsAnchor, varsCard, varsConv, varsPlace, varsNest, varsState, varsRepair, varsRels, varsSynth, varsReader, varsToken, varsTopo, varsFlat>>

notRels == <<varsThread, varsMarker, varsAnnot, varsAnchor, varsCard, varsConv, varsPlace, varsNest, varsState, varsRepair, varsWrite, varsSynth, varsReader, varsToken, varsTopo, varsFlat>>

notSynth == <<varsThread, varsMarker, varsAnnot, varsAnchor, varsCard, varsConv, varsPlace, varsNest, varsState, varsRepair, varsWrite, varsRels, varsReader, varsToken, varsTopo, varsFlat>>

notReader == <<varsThread, varsMarker, varsAnnot, varsAnchor, varsCard, varsConv, varsPlace, varsNest, varsState, varsRepair, varsWrite, varsRels, varsSynth, varsToken, varsTopo, varsFlat>>

notToken == <<varsThread, varsMarker, varsAnnot, varsAnchor, varsCard, varsConv, varsPlace, varsNest, varsState, varsRepair, varsWrite, varsRels, varsSynth, varsReader, varsTopo, varsFlat>>

notTopo == <<varsThread, varsMarker, varsAnnot, varsAnchor, varsCard, varsConv, varsPlace, varsNest, varsState, varsRepair, varsWrite, varsRels, varsSynth, varsReader, varsToken, varsFlat>>

notFlat == <<varsThread, varsMarker, varsAnnot, varsAnchor, varsCard, varsConv, varsPlace, varsNest, varsState, varsRepair, varsWrite, varsRels, varsSynth, varsReader, varsToken, varsTopo>>

(***************************************************************************)
(* Bounds and id pools                                                     *)
(***************************************************************************)
MaxComments == 3

IdPool == <<"1", "2", "3", "4", "5">>

\* The comment ids of the thread sub-model.
ThreadIds == {IdPool[i] : i \in 1..MaxComments}

\* An id that is never a comment of the document.
UnknownId == "99"

(***************************************************************************)
(* Generic helpers                                                         *)
(***************************************************************************)
Range(s) == {s[i] : i \in DOMAIN s}

\* dict.get(key) or ""
Get(m, k) == IF k \in DOMAIN m THEN m[k] ELSE ""

\* list.index(x) for x in s
IndexOf(s, x) == CHOOSE i \in 1..Len(s) : s[i] = x /\ \A j \in 1..(i - 1) : s[j] # x

\* All sequences without repetition over the subsets of S.
RECURSIVE PermsOf(_)
PermsOf(S) ==
  IF S = {} THEN {<<>>}
  ELSE UNION {{<<x>> \o p : p \in PermsOf(S \ {x})} : x \in S}

OrderingsOf(S) == UNION {PermsOf(T) : T \in SUBSET S}

EmptyMap == [x \in {} |-> ""]

(***************************************************************************)
(* ThreadValidator: extract_comment_texts_from_markdown, lines 2183-2253   *)
(***************************************************************************)
\* parent_by_id.get(child_id) or "" (stripped)
ParentOf(pmap, cid) == Get(pmap, cid)

\* Lines 2190-2205: one pass over ordered_started_ids that collects the
\* invalid links and accepts the others.
RECURSIVE CollectParentLinks(_, _, _, _)
CollectParentLinks(ordered, pmap, i, acc) ==
  IF i > Len(ordered) THEN acc
  ELSE
    LET child_id == ordered[i]
        parent_id == ParentOf(pmap, child_id)
    IN  IF parent_id = "" THEN CollectParentLinks(ordered, pmap, i + 1, acc)
        ELSE IF parent_id = child_id THEN
          CollectParentLinks(ordered, pmap, i + 1,
            [acc EXCEPT !.issues = Append(@, [kind |-> "own parent", child |-> child_id,
                                               parent |-> parent_id])])
        ELSE IF parent_id \notin Range(ordered) THEN
          CollectParentLinks(ordered, pmap, i + 1,
            [acc EXCEPT !.issues = Append(@, [kind |-> "unknown parent", child |-> child_id,
                                               parent |-> parent_id])])
        ELSE
          CollectParentLinks(ordered, pmap, i + 1,
            [acc EXCEPT !.valid = [c \in DOMAIN @ \cup {child_id} |->
                                     IF c = child_id THEN parent_id ELSE @[c]]])

\* Lines 2210-2229: white/gray/black walk up the accepted parent chain.
\* st = [visit |-> id -> 0..2, cycles |-> sequence of chains]
RECURSIVE DetectCycle(_, _, _, _)
DetectCycle(valid, comment_id, stack, st) ==
  LET state == IF comment_id \in DOMAIN st.visit THEN st.visit[comment_id] ELSE 0
  IN  IF state = 1 THEN
        LET cycle == IF comment_id \in Range(stack)
                     THEN SubSeq(stack, IndexOf(stack, comment_id), Len(stack)) \o <<comment_id>>
                     ELSE stack \o <<comment_id>>
        IN  [st EXCEPT !.cycles = Append(@, cycle)]
      ELSE IF state = 2 THEN st
      ELSE
        LET gray == [st EXCEPT !.visit = [c \in DOMAIN @ \cup {comment_id} |->
                                            IF c = comment_id THEN 1 ELSE @[c]]]
            parent_id == Get(valid, comment_id)
            after == IF parent_id # ""
                     THEN DetectCycle(valid, parent_id, Append(stack, comment_id), gray)
                     ELSE gray
        IN  [after EXCEPT !.visit = [c \in DOMAIN @ |-> IF c = comment_id THEN 2 ELSE @[c]]]

\* Lines 2231-2233
RECURSIVE DetectCycles(_, _, _, _)
DetectCycles(ordered, valid, i, st) ==
  IF i > Len(ordered) THEN st
  ELSE
    LET cid == ordered[i]
        unvisited == IF cid \in DOMAIN st.visit THEN st.visit[cid] = 0 ELSE TRUE
    IN  IF cid \in DOMAIN valid /\ unvisited
        THEN DetectCycles(ordered, valid, i + 1, DetectCycle(valid, cid, <<>>, st))
        ELSE DetectCycles(ordered, valid, i + 1, st)

\* SelectSeq with the order kept
KeepIn(s, S) == SelectSeq(s, LAMBDA x : x \in S)

ValidateThreadFirstIssue(ordered, pmap) ==
  LET links == CollectParentLinks(ordered, pmap, 1, [issues |-> <<>>, valid |-> EmptyMap])
      cyc == DetectCycles(ordered, links.valid, 1, [visit |-> EmptyMap, cycles |-> <<>>])
      failed == links.issues # <<>> \/ cyc.cycles # <<>>
      child_ids == DOMAIN links.valid
      roots == KeepIn(ordered, Range(ordered) \ child_ids)
  IN  IF failed
      THEN [ok |-> FALSE, issues |-> SubSeq(links.issues, 1, 1), cycles |-> cyc.cycles,
            parent_by_id |-> EmptyMap, child_ids |-> {}, root_ids |-> <<>>]
      ELSE [ok |-> TRUE, issues |-> <<>>, cycles |-> <<>>,
            parent_by_id |-> links.valid, child_ids |-> child_ids,
            root_ids |-> IF roots = <<>> THEN ordered ELSE roots]

\* Lines 2187-2253: the aggregated verdict. On an error no parent map is returned.
ValidateThread(ordered, pmap) ==
  LET links == CollectParentLinks(ordered, pmap, 1, [issues |-> <<>>, valid |-> EmptyMap])
      cyc == DetectCycles(ordered, links.valid, 1, [visit |-> EmptyMap, cycles |-> <<>>])
      failed == links.issues # <<>> \/ cyc.cycles # <<>>
      child_ids == DOMAIN links.valid
      roots == KeepIn(ordered, Range(ordered) \ child_ids)
  IN  IF failed
      THEN [ok |-> FALSE, issues |-> links.issues, cycles |-> cyc.cycles,
            parent_by_id |-> EmptyMap, child_ids |-> {}, root_ids |-> <<>>]
      ELSE [ok |-> TRUE, issues |-> <<>>, cycles |-> <<>>,
            parent_by_id |-> links.valid, child_ids |-> child_ids,
            root_ids |-> IF roots = <<>> THEN ordered ELSE roots]

(***************************************************************************)
(* topological_comment_order, lines 2321-2343                              *)
(***************************************************************************)
\* Lines 2327-2335: one pass over pending; an id emitted early in the pass
\* unblocks its children later in the same pass.
RECURSIVE TopoPass(_, _, _, _)
TopoPass(pending, pmap, i, acc) ==
  IF i > Len(pending) THEN acc
  ELSE
    LET cid == pending[i]
        parent_id == Get(pmap, cid)
    IN  IF cid \notin acc.pending_set THEN TopoPass(pending, pmap, i + 1, acc)
        ELSE IF parent_id # "" /\ parent_id \in acc.pending_set
          THEN TopoPass(pending, pmap, i + 1, acc)
        ELSE TopoPass(pending, pmap, i + 1,
               [emitted |-> Append(acc.emitted, cid),
                pending_set |-> acc.pending_set \ {cid}])

\* The fallback that emits nothing.
TopoFallbackKeepsPending(pending, i, acc) == acc

\* Lines 2339-2342: deterministic fallback when no id could be emitted.
RECURSIVE TopoFallback(_, _, _)
TopoFallback(pending, i, acc) ==
  IF i > Len(pending) THEN acc
  ELSE IF pending[i] \in acc.pending_set
    THEN TopoFallback(pending, i + 1,
           [emitted |-> Append(acc.emitted, pending[i]),
            pending_set |-> acc.pending_set \ {pending[i]}])
    ELSE TopoFallback(pending, i + 1, acc)

RECURSIVE TopoLoop(_, _, _)
TopoLoop(pending, pmap, acc) ==
  IF acc.pending_set = {} THEN acc.emitted
  ELSE
    LET pass == TopoPass(pending, pmap, 1, acc)
    IN  IF pass.pending_set # acc.pending_set
        THEN TopoLoop(pending, pmap, pass)
        ELSE TopoLoop(pending, pmap, TopoFallback(pending, 1, acc))

OrderAsGiven(ordered_ids, pmap) == SelectSeq(ordered_ids, LAMBDA c : c # "")

topological_comment_order(ordered_ids, pmap) ==
  LET pending == SelectSeq(ordered_ids, LAMBDA c : c # "")
  IN  TopoLoop(pending, pmap, [emitted |-> <<>>, pending_set |-> Range(pending)])

(***************************************************************************)
(* Thread sub-model: state machine                                         *)
(***************************************************************************)
NoThreadResult == [ok |-> FALSE, issues |-> <<>>, cycles |-> <<>>,
                   parent_by_id |-> EmptyMap, child_ids |-> {}, root_ids |-> <<>>]

ParentCandidates == {""} \cup ThreadIds \cup {UnknownId}

InitThread ==
  /\ pc_thread = "start"
  /\ ordered_started_ids \in OrderingsOf(ThreadIds)
  /\ parent_by_id \in [Range(ordered_started_ids) -> ParentCandidates]
  /\ thread_result = NoThreadResult
  /\ emitted = <<>>

IdleThread ==
  /\ pc_thread = "idle"
  /\ ordered_started_ids = <<>>
  /\ parent_by_id = EmptyMap
  /\ thread_result = NoThreadResult
  /\ emitted = <<>>

\* extract_comment_texts_from_markdown accepts the thread (returns comment_data).
ThreadAccepted ==
  /\ pc_thread = "start"
  /\ ValidateThread(ordered_started_ids, parent_by_id).ok
  /\ thread_result' = ValidateThread(ordered_started_ids, parent_by_id)
  /\ pc_thread' = "validated"
  /\ UNCHANGED <<ordered_started_ids, parent_by_id, emitted>>
  /\ UNCHANGED notThread

\* extract_comment_texts_from_markdown raises ValueError (lines 2235-2244).
ThreadRejected ==
  /\ pc_thread = "start"
  /\ ~ValidateThread(ordered_started_ids, parent_by_id).ok
  /\ thread_result' = ValidateThread(ordered_started_ids, parent_by_id)
  /\ pc_thread' = "error"
  /\ UNCHANGED <<ordered_started_ids, parent_by_id, emitted>>
  /\ UNCHANGED notThread

\* rewrite_comments_from_markdown_threaded line 2366: the writer's order.
OrderComments ==
  /\ pc_thread = "validated"
  /\ emitted' = topological_comment_order(ordered_started_ids, thread_result.parent_by_id)
  /\ pc_thread' = "ordered"
  /\ UNCHANGED <<ordered_started_ids, parent_by_id, thread_result>>
  /\ UNCHANGED notThread

NextThread == ThreadAccepted \/ ThreadRejected \/ OrderComments

(***************************************************************************)
(* MarkerIntegrityValidator: validate_comment_marker_integrity, 1431-1508  *)
(***************************************************************************)
MaxLexemes == 4

\* The ids of the marker sub-model, in the order in which
\* sorted(all_ids, key=lambda value: (len(value), value)) visits them.
MarkerIds == <<"1", "2">>

\* The ids of all sub-models as sorted(all_ids, key=lambda value: (len(value), value))
\* (1443) orders them.
SortedIds == <<"1", "2", "3">>

\* The source text is a sequence of lexemes: a milestone token ///C<id>.START///
\* or ///C<id>.END///, a highlight delimiter "==", a newline, a word of prose, or
\* the CARD_META comment of a root card (a card whose meta holds no parent).
\* Blanks and tabs between lexemes are not kept: the code skips them.
Lexeme(t, id, edge) == [t |-> t, id |-> id, edge |-> edge]

TokenLexemes == {Lexeme("tok", id, e) : id \in Range(MarkerIds), e \in {"s", "e"}}

RootCardLexemes == {Lexeme("card", id, "") : id \in Range(MarkerIds)}

Lexemes ==
  TokenLexemes \cup RootCardLexemes
    \cup {Lexeme("eq", "", ""), Lexeme("nl", "", ""), Lexeme("word", "", "")}

SeqsUpTo(S, n) == UNION {[1..k -> S] : k \in 0..n}

\* normalize_milestone_tokens_ast (1307-1325): MILESTONE_TOKEN_RE turns a token,
\* with the "==" pair around it when both sides are there, into a comment-start
\* or comment-end span; cards are taken out of the document; the rest stays.
RECURSIVE NormalizeFrom(_, _)
NormalizeFrom(text, i) ==
  IF i > Len(text) THEN <<>>
  ELSE IF /\ text[i].t = "eq"
          /\ i + 2 <= Len(text)
          /\ text[i + 1].t = "tok"
          /\ text[i + 2].t = "eq"
    THEN <<Lexeme("span", text[i + 1].id, text[i + 1].edge)>> \o NormalizeFrom(text, i + 3)
  ELSE IF text[i].t = "tok"
    THEN <<Lexeme("span", text[i].id, text[i].edge)>> \o NormalizeFrom(text, i + 1)
  ELSE IF text[i].t = "card" THEN NormalizeFrom(text, i + 1)
  ELSE <<text[i]>> \o NormalizeFrom(text, i + 1)

normalize_milestone_tokens_ast(text) == NormalizeFrom(text, 1)

ZeroBasedLine(text, offset) ==
  Cardinality({j \in 1..(offset - 1) : text[j].t = "nl"})

\* line_col_for_offset (1328-1333): the 1-based line of an offset.
line_col_for_offset(text, offset) ==
  Cardinality({j \in 1..(offset - 1) : text[j].t = "nl"}) + 1

\* The offsets of text, ascending.
Offsets(text) == [i \in 1..Len(text) |-> i]

SpanPositionsOfId(normalized_text, id, edge) ==
  SelectSeq(Offsets(normalized_text),
            LAMBDA i : normalized_text[i].t = "span" /\ normalized_text[i].id = id)

\* collect_span_marker_positions (1346-1370): offsets of the spans of one id and edge.
collect_span_marker_positions(normalized_text, id, edge) ==
  SelectSeq(Offsets(normalized_text),
            LAMBDA i : /\ normalized_text[i].t = "span"
                       /\ normalized_text[i].id = id
                       /\ normalized_text[i].edge = edge)

\* collect_root_card_lines (1373-1386): line of the first root card of each id.
collect_root_card_lines(text) ==
  LET ids == {text[i].id : i \in {j \in 1..Len(text) : text[j].t = "card"}}
  IN  [id \in ids |->
         line_col_for_offset(text,
           SelectSeq(Offsets(text),
                     LAMBDA i : text[i].t = "card" /\ text[i].id = id)[1])]

\* card_by_id of parse_comment_cards_from_doc: the ids of the cards without parent.
RootCardIds(text) == {text[i].id : i \in {j \in 1..Len(text) : text[j].t = "card"}}

MarkerIssue(kind, id, start, end, line) ==
  [kind |-> kind, id |-> id, start |-> start, end |-> end, line |-> line]

\* Lines 1445-1489: the issues of one id.
IssuesOfId(normalized_text, root_line_by_id, comment_id) ==
  LET starts == collect_span_marker_positions(normalized_text, comment_id, "s")
      ends == collect_span_marker_positions(normalized_text, comment_id, "e")
      start_count == Len(starts)
      end_count == Len(ends)
      is_root_card == comment_id \in DOMAIN root_line_by_id
      counts ==
        IF is_root_card /\ (start_count # 1 \/ end_count # 1)
          THEN <<MarkerIssue("root", comment_id, start_count, end_count,
                             root_line_by_id[comment_id])>>
        ELSE IF start_count # end_count
          THEN <<MarkerIssue("unbalanced", comment_id, start_count, end_count, 0)>>
        ELSE <<>>
      duplicates ==
        IF start_count > 1 \/ end_count > 1
          THEN <<MarkerIssue("duplicate", comment_id, start_count, end_count, 0)>>
          ELSE <<>>
      misordered ==
        IF start_count > 0 /\ end_count > 0 /\ starts[1] > ends[end_count]
          THEN <<MarkerIssue("end before start", comment_id, start_count, end_count,
                             line_col_for_offset(normalized_text, starts[1]))>>
          ELSE <<>>
      start_line ==
        IF start_count > 0 /\ end_count = 0
          THEN <<MarkerIssue("start marker line", comment_id, start_count, end_count,
                             line_col_for_offset(normalized_text, starts[1]))>>
          ELSE <<>>
      end_line ==
        IF end_count > 0 /\ start_count = 0
          THEN <<MarkerIssue("end marker line", comment_id, start_count, end_count,
                             line_col_for_offset(normalized_text, ends[1]))>>
          ELSE <<>>
  IN  counts \o duplicates \o misordered \o start_line \o end_line

\* collect_one_sided_wrapper_issues (1395-1428), over the source text.
RECURSIVE collect_one_sided_wrapper_issues(_, _)
collect_one_sided_wrapper_issues(text, i) ==
  IF i > Len(text) THEN <<>>
  ELSE
    LET has_left_wrapper == i > 1 /\ text[i - 1].t = "eq"
        has_right_wrapper == i < Len(text) /\ text[i + 1].t = "eq"
        rest == collect_one_sided_wrapper_issues(text, i + 1)
    IN  IF text[i].t = "tok" /\ has_left_wrapper # has_right_wrapper
          THEN <<MarkerIssue("one-sided wrapper", text[i].id,
                             IF text[i].edge = "s" THEN 1 ELSE 0,
                             IF text[i].edge = "e" THEN 1 ELSE 0,
                             line_col_for_offset(text, i))>> \o rest
          ELSE rest

RECURSIVE IssuesOfFirstId(_, _, _, _)
IssuesOfFirstId(normalized_text, root_line_by_id, all_ids, k) ==
  IF k > Len(SortedIds) THEN <<>>
  ELSE
    LET own == IF SortedIds[k] \in all_ids
                 THEN IssuesOfId(normalized_text, root_line_by_id, SortedIds[k])
                 ELSE <<>>
    IN  IF own # <<>> THEN own
        ELSE IssuesOfFirstId(normalized_text, root_line_by_id, all_ids, k + 1)

RECURSIVE IssuesOfIds(_, _, _, _)
IssuesOfIds(normalized_text, root_line_by_id, all_ids, k) ==
  IF k > Len(SortedIds) THEN <<>>
  ELSE (IF SortedIds[k] \in all_ids
          THEN IssuesOfId(normalized_text, root_line_by_id, SortedIds[k])
          ELSE <<>>)
       \o IssuesOfIds(normalized_text, root_line_by_id, all_ids, k + 1)

\* validate_comment_marker_integrity (1431-1508): the aggregated issues; the
\* function raises ValueError when the sequence is not empty.
validate_comment_marker_integrity(source, normalized_text, card_root_ids) ==
  LET from_source == collect_root_card_lines(source)
      root_line_by_id ==
        [id \in DOMAIN from_source \cup card_root_ids |->
           IF id \in DOMAIN from_source THEN from_source[id] ELSE 0]
      span_ids == {normalized_text[i].id :
                     i \in {j \in 1..Len(normalized_text) : normalized_text[j].t = "span"}}
      all_ids == span_ids \cup DOMAIN root_line_by_id
  IN  IssuesOfIds(normalized_text, root_line_by_id, all_ids, 1)
        \o collect_one_sided_wrapper_issues(source, 1)

(***************************************************************************)
(* Marker sub-model: state machine                                         *)
(***************************************************************************)
InitMarker ==
  /\ pc_marker = "start"
  /\ source_text \in SeqsUpTo(Lexemes, MaxLexemes)
  /\ root_cards = RootCardIds(source_text)
  /\ marker_issues = <<>>

IdleMarker ==
  /\ pc_marker = "idle"
  /\ source_text = <<>>
  /\ root_cards = {}
  /\ marker_issues = <<>>

MarkerIssuesNow ==
  validate_comment_marker_integrity(
    source_text, normalize_milestone_tokens_ast(source_text), root_cards)

\* validate_comment_marker_integrity returns: no issue was found.
MarkersPass ==
  /\ pc_marker = "start"
  /\ MarkerIssuesNow = <<>>
  /\ pc_marker' = "passed"
  /\ marker_issues' = <<>>
  /\ UNCHANGED <<source_text, root_cards>>
  /\ UNCHANGED notMarker

\* validate_comment_marker_integrity raises ValueError listing every issue.
MarkersFail ==
  /\ pc_marker = "start"
  /\ MarkerIssuesNow # <<>>
  /\ pc_marker' = "failed"
  /\ marker_issues' = MarkerIssuesNow
  /\ UNCHANGED <<source_text, root_cards>>
  /\ UNCHANGED notMarker

NextMarker == MarkersPass \/ MarkersFail

(***************************************************************************)
(* AstAnnotator: annotate_markdown_comment_attrs, lines 1533-1602          *)
(***************************************************************************)
MaxAttrs == 2

\* str.strip() and str.lower() on the strings of the model.
Strip(s) == IF s = " " THEN "" ELSE IF s = "Resolved " THEN "Resolved" ELSE s

Lower(s) == IF s = "Resolved" THEN "resolved" ELSE s

\* parse_state_token without trimming and lower-casing.
ParseStateTokenExact(state_value) ==
  IF state_value = "resolved" THEN "resolved" ELSE "active"

\* parse_state_token (131-135)
parse_state_token(state_value) ==
  IF Lower(Strip(state_value)) = "resolved" THEN "resolved" ELSE "active"

\* The key-value attributes the annotator reads or writes, in the order of
\* lines 1573-1590; "id" is the key of normalize_comment_span_id_attr.
AnnotFields ==
  <<"parent", "state", "paraId", "durableId", "presenceProvider", "presenceUserId">>

AttrKeys == {"id"} \cup Range(AnnotFields)

AttrValues == {"", "1"}

AttrItems == {<<k, v>> : k \in AttrKeys, v \in AttrValues}

SpanClasses == {{}, {"comment-start"}, {"comment-end"}, {"comment-start", "comment-end"}}

SpanIdentifiers == {"", " ", "1"}

SpanAttrs ==
  [identifier : SpanIdentifiers, classes : SpanClasses, kvs : SeqsUpTo(AttrItems, MaxAttrs)]

\* The graph maps handed to the annotator: one map per field, id -> value.
GraphMaps(parent, state, para, durable, provider, user) ==
  [parent |-> parent, state |-> state, paraId |-> para, durableId |-> durable,
   presenceProvider |-> provider, presenceUserId |-> user]

OneEntry(id, v) == [x \in {id} |-> v]

GraphPool ==
  { GraphMaps(EmptyMap, EmptyMap, EmptyMap, EmptyMap, EmptyMap, EmptyMap),
    GraphMaps(OneEntry("1", "5"), OneEntry("1", "Resolved "), OneEntry("1", "P1"),
              OneEntry("1", "D1"), OneEntry("1", "AD"), OneEntry("1", "U1")),
    GraphMaps(EmptyMap, OneEntry("1", "active"), EmptyMap, EmptyMap, EmptyMap, EmptyMap),
    GraphMaps(OneEntry("2", "1"), OneEntry("2", "resolved"), EmptyMap, EmptyMap,
              EmptyMap, EmptyMap) }

\* Index of the first item of kvs with the key, 0 when there is none.
FirstIndexOfKey(kvs, key) ==
  IF \E i \in DOMAIN kvs : kvs[i][1] = key
    THEN CHOOSE i \in DOMAIN kvs :
           kvs[i][1] = key /\ \A j \in 1..(i - 1) : kvs[j][1] # key
    ELSE 0

\* Lines 1564-1567: the dict built from kvs; a later item wins. A missing key
\* reads as "" (None is falsy like the empty string).
KvDict(kvs, key) ==
  IF \E i \in DOMAIN kvs : kvs[i][1] = key
    THEN kvs[CHOOSE i \in DOMAIN kvs :
               kvs[i][1] = key /\ \A j \in (i + 1)..Len(kvs) : kvs[j][1] # key][2]
    ELSE ""

EnsureAttrPairOverwrite(kvs, key, value) ==
  LET i == FirstIndexOfKey(kvs, key)
  IN  IF i = 0 THEN [kvs |-> Append(kvs, <<key, value>>), changed |-> TRUE]
      ELSE [kvs |-> [kvs EXCEPT ![i] = <<key, value>>], changed |-> TRUE]

\* ensure_attr_pair (177-185)
ensure_attr_pair(kvs, key, value) ==
  LET i == FirstIndexOfKey(kvs, key)
  IN  IF i = 0 THEN [kvs |-> Append(kvs, <<key, value>>), changed |-> TRUE]
      ELSE IF kvs[i][2] # "" THEN [kvs |-> kvs, changed |-> FALSE]
      ELSE [kvs |-> [kvs EXCEPT ![i] = <<key, value>>], changed |-> TRUE]

\* normalize_comment_span_id_attr (201-222)
normalize_comment_span_id_attr(attr) ==
  LET identifier == Strip(attr.identifier)
      i == FirstIndexOfKey(attr.kvs, "id")
      kvs == IF i = 0 THEN <<<<"id", identifier>>>> \o attr.kvs
             ELSE IF attr.kvs[i][2] = "" THEN [attr.kvs EXCEPT ![i] = <<"id", identifier>>]
             ELSE attr.kvs
  IN  IF "comment-start" \notin attr.classes /\ "comment-end" \notin attr.classes
        THEN [attr |-> attr, changed |-> FALSE]
      ELSE IF identifier = "" THEN [attr |-> attr, changed |-> FALSE]
      ELSE [attr |-> [identifier |-> "", classes |-> attr.classes, kvs |-> kvs],
            changed |-> TRUE]

\* Lines 1572-1590: one field after the other; kv is the dict read at 1564-1567.
RECURSIVE EnsureFields(_, _, _, _, _)
EnsureFields(acc, kv_source, maps, cid, k) ==
  IF k > Len(AnnotFields) THEN acc
  ELSE
    LET field == AnnotFields[k]
        raw == Get(maps[field], cid)
        value == IF field = "state" THEN parse_state_token(raw) ELSE raw
        step == IF value # "" /\ KvDict(kv_source, field) = ""
                  THEN ensure_attr_pair(acc.kvs, field, value)
                  ELSE [kvs |-> acc.kvs, changed |-> FALSE]
    IN  EnsureFields([kvs |-> step.kvs, changed |-> step.changed \/ acc.changed],
                     kv_source, maps, cid, k + 1)

\* on_span (1556-1591)
on_span(attr, maps) ==
  LET normalized == normalize_comment_span_id_attr(attr)
      identifier == Strip(normalized.attr.identifier)
      kvs == normalized.attr.kvs
      cid == IF identifier # "" THEN identifier ELSE Strip(KvDict(kvs, "id"))
      ensured == EnsureFields([kvs |-> kvs, changed |-> normalized.changed],
                              kvs, maps, cid, 1)
  IN  IF "comment-start" \notin normalized.attr.classes THEN normalized
      ELSE IF cid = "" THEN normalized
      ELSE [attr |-> [normalized.attr EXCEPT !.kvs = ensured.kvs],
            changed |-> ensured.changed]

\* annotate_markdown_comment_attrs (1533-1602) over a document of one span:
\* nothing is read when every map is empty; walk_pandoc_spans (225-317) counts
\* the spans whose handler returned True.
annotate_markdown_comment_attrs(attr, maps) ==
  IF \A k \in DOMAIN AnnotFields : maps[AnnotFields[k]] = EmptyMap
    THEN [attr |-> attr, changed |-> 0]
    ELSE [attr |-> on_span(attr, maps).attr,
          changed |-> IF on_span(attr, maps).changed THEN 1 ELSE 0]

(***************************************************************************)
(* Annotator sub-model: state machine                                      *)
(***************************************************************************)
InitAnnot ==
  /\ pc_annot = "start"
  /\ graph_maps \in GraphPool
  /\ span_attrs \in {<<a>> : a \in SpanAttrs}
  /\ changed_counts = <<>>

IdleAnnot ==
  /\ pc_annot = "idle"
  /\ graph_maps = GraphMaps(EmptyMap, EmptyMap, EmptyMap, EmptyMap, EmptyMap, EmptyMap)
  /\ span_attrs = <<>>
  /\ changed_counts = <<>>

\* One call of the annotator on the current AST.
Annotate(next_pc) ==
  LET result == annotate_markdown_comment_attrs(span_attrs[Len(span_attrs)], graph_maps)
  IN  /\ span_attrs' = Append(span_attrs, result.attr)
      /\ changed_counts' = Append(changed_counts, result.changed)
      /\ pc_annot' = next_pc
      /\ UNCHANGED graph_maps
      /\ UNCHANGED notAnnot

AnnotateFirst == pc_annot = "start" /\ Annotate("once")

AnnotateAgain == pc_annot = "once" /\ Annotate("twice")

NextAnnot == AnnotateFirst \/ AnnotateAgain

(***************************************************************************)
(* MilestoneEncoder and MilestoneDecoder on flowing text:                  *)
(* rewrite_comment_spans_to_milestones_in_doc (1001-1111) and              *)
(* expand_milestone_tokens_in_text (827-860)                               *)
(***************************************************************************)
MaxInlines == 4

\* The comment ids of the flowing text; a comment id of a package is a decimal number.
AnchorIds == {"1", "2"}

\* str.isdigit() on the ids of the model.
isdigit(cid) == cid \in {"0", "1", "2", "3", "4", "5", "9", "99"}

\* A pandoc inline: Str with its text c (a sequence of lexemes), Space, or the
\* comment-start / comment-end span of a comment id.
Inline(t, c, id) == [t |-> t, c |-> c, id |-> id]

Str(c) == Inline("Str", c, "")

Space == Inline("Space", <<>>, "")

SpanStart(id) == Inline("SpanStart", <<>>, id)

SpanEnd(id) == Inline("SpanEnd", <<>>, id)

\* The prose words of the model; "==" is the highlight delimiter used as prose.
ProseStrs == {Str(<<"w">>), Str(<<"v">>), Str(<<"==">>)}

MilestoneMarkerOneSided(cid, edge) ==
  Str(<<"==", "///">> \o (IF isdigit(cid) THEN <<"C", cid>> ELSE <<cid>>)
        \o <<".", IF edge = "e" THEN "END" ELSE "START", "///">>)

\* milestone_marker_inline (345-352)
milestone_marker_inline(cid, edge) ==
  Str(<<"==", "///">> \o (IF isdigit(cid) THEN <<"C", cid>> ELSE <<cid>>)
        \o <<".", IF edge = "e" THEN "END" ELSE "START", "///", "==">>)

\* walk_inlines with a token for every comment span, replies included.
RECURSIVE RewriteSpansKeepReplies(_, _, _)
RewriteSpansKeepReplies(inlines, child_id_set, i) ==
  IF i > Len(inlines) THEN <<>>
  ELSE
    LET node == inlines[i]
        rest == RewriteSpansKeepReplies(inlines, child_id_set, i + 1)
    IN  IF node.t = "SpanStart"
          THEN <<milestone_marker_inline(node.id, "s")>> \o rest
        ELSE IF node.t = "SpanEnd"
          THEN <<milestone_marker_inline(node.id, "e")>> \o rest
        ELSE <<node>> \o rest

\* walk_inlines of rewrite_comment_spans_to_milestones_in_doc (1020-1071): a
\* span of a root becomes a milestone Str, a span of a reply is dropped.
RECURSIVE RewriteSpans(_, _, _)
RewriteSpans(inlines, child_id_set, i) ==
  IF i > Len(inlines) THEN <<>>
  ELSE
    LET node == inlines[i]
        rest == RewriteSpans(inlines, child_id_set, i + 1)
    IN  IF node.t = "SpanStart"
          THEN (IF node.id \notin child_id_set
                  THEN <<milestone_marker_inline(node.id, "s")>> ELSE <<>>) \o rest
        ELSE IF node.t = "SpanEnd"
          THEN (IF node.id \notin child_id_set
                  THEN <<milestone_marker_inline(node.id, "e")>> ELSE <<>>) \o rest
        ELSE <<node>> \o rest

\* start_order (1040-1042): the roots in the order of their first start span.
RECURSIVE StartOrder(_, _, _, _)
StartOrder(inlines, child_id_set, i, acc) ==
  IF i > Len(inlines) THEN acc
  ELSE IF /\ inlines[i].t = "SpanStart"
          /\ inlines[i].id \notin child_id_set
          /\ inlines[i].id \notin Range(acc)
    THEN StartOrder(inlines, child_id_set, i + 1, Append(acc, inlines[i].id))
    ELSE StartOrder(inlines, child_id_set, i + 1, acc)

rewrite_comment_spans_to_milestones_in_doc(inlines, child_ids) ==
  [inlines |-> RewriteSpans(inlines, child_ids, 1),
   start_order |-> StartOrder(inlines, child_ids, 1, <<>>)]

\* The markdown writer on a paragraph: the text of the inlines, one after the other.
RECURSIVE RenderInlines(_)
RenderInlines(inlines) ==
  IF inlines = <<>> THEN <<>>
  ELSE (IF Head(inlines).t = "Str" THEN Head(inlines).c
        ELSE IF Head(inlines).t = "Space" THEN <<" ">>
        ELSE <<>>) \o RenderInlines(Tail(inlines))

\* text_to_pandoc_inlines (320-342): a run of blanks is one Space, a run of
\* other characters one Str.
RECURSIVE text_to_pandoc_inlines(_)
text_to_pandoc_inlines(text) ==
  IF text = <<>> THEN <<>>
  ELSE IF Head(text) = " "
    THEN LET rest == text_to_pandoc_inlines(Tail(text))
         IN  IF Len(text) > 1 /\ text[2] = " " THEN rest ELSE <<Space>> \o rest
  ELSE LET rest == text_to_pandoc_inlines(Tail(text))
       IN  IF rest # <<>> /\ Head(rest).t = "Str"
             THEN <<Str(<<Head(text)>> \o Head(rest).c)>> \o Tail(rest)
             ELSE <<Str(<<Head(text)>>)>> \o rest

\* normalize_milestone_edge (355-361)
normalize_milestone_edge(edge_token) ==
  IF edge_token \in {"START", "start", "S", "s"} THEN "s"
  ELSE IF edge_token \in {"END", "end", "E", "e"} THEN "e"
  ELSE ""

At(text, i) == IF i \in DOMAIN text THEN text[i] ELSE ""

RECURSIVE SkipBlanks(_, _)
SkipBlanks(text, i) == IF At(text, i) = " " THEN SkipBlanks(text, i + 1) ELSE i

NoMatch == [ok |-> FALSE, id |-> "", edge |-> "", end |-> 0]

\* MILESTONE_CORE_TOKEN_RE (64-67) tried at offset j: ///C<digit id>.<edge>///
\* first, ///<id>.<edge>/// second; an id starts with a letter or a digit.
CoreTokenMatch(text, j) ==
  IF At(text, j) # "///" THEN NoMatch
  ELSE IF /\ At(text, j + 1) = "C"
          /\ isdigit(At(text, j + 2))
          /\ At(text, j + 3) = "."
          /\ normalize_milestone_edge(At(text, j + 4)) # ""
          /\ At(text, j + 5) = "///"
    THEN [ok |-> TRUE, id |-> At(text, j + 2),
          edge |-> normalize_milestone_edge(At(text, j + 4)), end |-> j + 6]
  ELSE IF /\ At(text, j + 1) \notin {"", " ", "==", "///", ".", "-7"}
          /\ At(text, j + 2) = "."
          /\ normalize_milestone_edge(At(text, j + 3)) # ""
          /\ At(text, j + 4) = "///"
    THEN [ok |-> TRUE, id |-> At(text, j + 1),
          edge |-> normalize_milestone_edge(At(text, j + 3)), end |-> j + 5]
  ELSE NoMatch

\* MILESTONE_TOKEN_RE (58-63) tried at offset i: with a leading "==" the
\* trailing "==" is required; without it the core token alone matches.
MilestoneTokenMatch(text, i) ==
  IF At(text, i) = "=="
    THEN LET core == CoreTokenMatch(text, SkipBlanks(text, i + 1))
             k == SkipBlanks(text, core.end)
         IN  IF core.ok /\ At(text, k) = "==" THEN [core EXCEPT !.end = k + 1]
             ELSE NoMatch
    ELSE CoreTokenMatch(text, i)

\* expand_milestone_tokens_in_text (827-860): the text before a match becomes
\* inlines, the match a comment span (make_comment_span_inline, 797-824).
RECURSIVE ExpandFrom(_, _, _)
ExpandFrom(text, i, cursor) ==
  IF i > Len(text) THEN text_to_pandoc_inlines(SubSeq(text, cursor, Len(text)))
  ELSE
    LET match == MilestoneTokenMatch(text, i)
    IN  IF match.ok
          THEN text_to_pandoc_inlines(SubSeq(text, cursor, i - 1))
                 \o <<IF match.edge = "s" THEN SpanStart(match.id) ELSE SpanEnd(match.id)>>
                 \o ExpandFrom(text, match.end, match.end)
          ELSE ExpandFrom(text, i + 1, cursor)

expand_milestone_tokens_in_text(text) == ExpandFrom(text, 1, 1)

(***************************************************************************)
(* Anchor sub-model: flowing text encoded and decoded                      *)
(***************************************************************************)
AnchorInlines ==
  ProseStrs \cup {Space}
    \cup {SpanStart(id) : id \in AnchorIds} \cup {SpanEnd(id) : id \in AnchorIds}

InitAnchor ==
  /\ pc_anchor = "start"
  /\ ast_inlines \in SeqsUpTo(AnchorInlines, MaxInlines)
  /\ anchor_child_ids \in {{}, {"2"}}
  /\ md_prose = <<>>
  /\ decoded_inlines = <<>>

IdleAnchor ==
  /\ pc_anchor = "idle"
  /\ ast_inlines = <<>>
  /\ anchor_child_ids = {}
  /\ md_prose = <<>>
  /\ decoded_inlines = <<>>

\* emit_milestones_and_cards_ast (1122-1123, 1294-1301): spans are rewritten
\* and the paragraph is written out as markdown text.
EncodeSpans ==
  /\ pc_anchor = "start"
  /\ md_prose' = RenderInlines(
       rewrite_comment_spans_to_milestones_in_doc(ast_inlines, anchor_child_ids).inlines)
  /\ pc_anchor' = "encoded"
  /\ UNCHANGED <<ast_inlines, anchor_child_ids, decoded_inlines>>
  /\ UNCHANGED notAnchor

\* normalize_milestone_tokens_ast (1314-1316): the text is read back and its
\* milestone tokens become comment spans again.
DecodeTokens ==
  /\ pc_anchor = "encoded"
  /\ decoded_inlines' = expand_milestone_tokens_in_text(md_prose)
  /\ pc_anchor' = "decoded"
  /\ UNCHANGED <<ast_inlines, anchor_child_ids, md_prose>>
  /\ UNCHANGED notAnchor

NextAnchor == EncodeSpans \/ DecodeTokens

(***************************************************************************)
(* Comment cards: build_comment_card_blockquote (980-998) with             *)
(* emit_milestones_and_cards_ast (1114-1304), and the way back through     *)
(* parse_comment_card_payload_text (541-597), parse_comment_card_blockquote*)
(* (600-692) and extract_comment_texts_from_markdown (1955-2290)           *)
(***************************************************************************)
\* The comment ids of a package, in the order of comments.xml.
CardIds == <<"1", "2">>

\* The comment bodies of the model, as sequences of characters: "w" is a
\* letter, "u201c" the left curly double quote.
CommentTexts == {<<>>, <<"w">>, <<" ", "w">>, <<"u201c", "w">>}

\* A parent id that is no comment of the package.
AbsentParentId == "9"

\* normalize_markdown_comment_text (1733-1746): curly quotes become straight
\* ones ("u0022") and the text is stripped.
RECURSIVE StripLeft(_)
StripLeft(text) ==
  IF text # <<>> /\ Head(text) = " " THEN StripLeft(Tail(text)) ELSE text

RECURSIVE StripRight(_)
StripRight(text) ==
  IF text # <<>> /\ text[Len(text)] = " "
    THEN StripRight(SubSeq(text, 1, Len(text) - 1)) ELSE text

normalize_markdown_comment_text(text) ==
  StripRight(StripLeft([i \in DOMAIN text |-> IF text[i] = "u201c" THEN "u0022" ELSE text[i]]))

CardKeys ==
  <<"author", "date", "parent", "state", "paraId", "durableId",
    "presenceProvider", "presenceUserId">>

\* convert_docx_to_md (3373-3385): the card fields of one comment.
CardMetaOf(comment, parent) ==
  [author |-> Strip(comment.author), date |-> Strip(comment.date),
   parent |-> Strip(parent),
   state |-> IF comment.resolved THEN "resolved" ELSE "active",
   paraId |-> "", durableId |-> "", presenceProvider |-> "", presenceUserId |-> "",
   text |-> normalize_markdown_comment_text(comment.text)]

\* cards_meta_by_id.get(comment_id) or {}
EmptyCardMeta ==
  [author |-> "", date |-> "", parent |-> "", state |-> "",
   paraId |-> "", durableId |-> "", presenceProvider |-> "", presenceUserId |-> "",
   text |-> <<>>]

comment_cards_by_id(cs, pmap) ==
  [cid \in DOMAIN cs |-> CardMetaOf(cs[cid], Get(pmap, cid))]

\* build_card_meta_marker (510-526): <!--CARD_META{#id "key":"value",...}-->
\* holds the keys whose value is not empty.
RECURSIVE MetaAttrs(_, _)
MetaAttrs(meta, k) ==
  IF k > Len(CardKeys) THEN <<>>
  ELSE (IF Strip(meta[CardKeys[k]]) # ""
          THEN <<<<CardKeys[k], Strip(meta[CardKeys[k]])>>>> ELSE <<>>)
       \o MetaAttrs(meta, k + 1)

build_card_meta_marker(comment_id, meta) ==
  [id |-> comment_id, attrs |-> MetaAttrs(meta, 1)]

HeaderText(kind, comment_id, author, state) ==
  <<"[!", kind, comment_id, ":", author, "(", state, ")]">>

BuildCardAsReply(comment_id, meta, children) ==
  [header |-> HeaderText("REPLY", comment_id,
                         IF Strip(meta.author) # "" THEN Strip(meta.author) ELSE "Unknown",
                         parse_state_token(meta.state)),
   marker |-> build_card_meta_marker(comment_id, meta),
   body |-> normalize_markdown_comment_text(meta.text),
   children |-> children]

\* build_comment_card_blockquote (980-998)
build_comment_card_blockquote(comment_id, meta, children) ==
  [header |-> HeaderText(IF Strip(meta.parent) # "" THEN "REPLY" ELSE "COMMENT",
                         comment_id,
                         IF Strip(meta.author) # "" THEN Strip(meta.author) ELSE "Unknown",
                         parse_state_token(meta.state)),
   marker |-> build_card_meta_marker(comment_id, meta),
   body |-> normalize_markdown_comment_text(meta.text),
   children |-> children]

\* children_by_parent (1127-1133): the cards whose parent is another card, in
\* the order of the cards.
ChildrenByParent(cards, parent) ==
  SelectSeq(CardIds, LAMBDA cid :
    /\ cid \in DOMAIN cards
    /\ Strip(cards[cid].parent) = parent
    /\ parent # cid
    /\ parent \in DOMAIN cards)

\* build_thread_blockquote (1135-1147); seen is shared by the whole walk.
RECURSIVE build_thread_blockquote(_, _, _)
RECURSIVE BuildChildBlocks(_, _, _, _)
build_thread_blockquote(cards, comment_id, seen) ==
  IF comment_id \in seen THEN [ok |-> FALSE, blocks |-> <<>>, seen |-> seen]
  ELSE
    LET kids == BuildChildBlocks(cards, ChildrenByParent(cards, comment_id), 1,
                                 seen \cup {comment_id})
    IN  [ok |-> TRUE,
         blocks |-> <<build_comment_card_blockquote(comment_id, cards[comment_id],
                                                    kids.blocks)>>,
         seen |-> kids.seen]

BuildChildBlocks(cards, child_list, k, seen) ==
  IF k > Len(child_list) THEN [ok |-> TRUE, blocks |-> <<>>, seen |-> seen]
  ELSE
    LET one == build_thread_blockquote(cards, child_list[k], seen)
        rest == BuildChildBlocks(cards, child_list, k + 1, one.seen)
    IN  [ok |-> TRUE, blocks |-> one.blocks \o rest.blocks, seen |-> rest.seen]

\* cards_by_root_id (1149-1152) laid out after the paragraph (1276-1293): one
\* thread block per root of start_order that is a card.
RECURSIVE RootCards(_, _, _)
RootCards(cards, start_order, k) ==
  IF k > Len(start_order) THEN <<>>
  ELSE (IF start_order[k] \in DOMAIN cards
          THEN build_thread_blockquote(cards, start_order[k], {}).blocks
          ELSE <<build_comment_card_blockquote(start_order[k], EmptyCardMeta, <<>>)>>)
       \o RootCards(cards, start_order, k + 1)

\* emit_milestones_and_cards_ast (1114-1304) on a document of one paragraph.
emit_milestones_and_cards_ast(inlines, cards, child_ids) ==
  LET rewritten == rewrite_comment_spans_to_milestones_in_doc(inlines, child_ids)
  IN  [prose |-> RenderInlines(rewritten.inlines),
       cards |-> IF rewritten.start_order # <<>>
                   THEN RootCards(cards, rewritten.start_order, 1) ELSE <<>>]

\* parse_comment_callout_header (529-538) with CARD_HEADER_RE (54-57)
parse_comment_callout_header(line) ==
  IF /\ Len(line) = 8
     /\ line[1] = "[!"
     /\ line[2] \in {"COMMENT", "REPLY"}
     /\ line[3] # ""
     /\ line[4] = ":"
     /\ line[6] = "("
     /\ line[7] \in {"active", "resolved"}
     /\ line[8] = ")]"
    THEN [ok |-> TRUE, kind |-> line[2], id |-> Strip(line[3]),
          author |-> Strip(line[5]), state |-> parse_state_token(line[7])]
    ELSE [ok |-> FALSE, kind |-> "", id |-> "", author |-> "", state |-> ""]

\* parse_card_meta_marker (490-507): the id and the payload as a dict; of a
\* key written twice the last value stays.
RECURSIVE MetaDict(_, _)
MetaDict(attrs, acc) ==
  IF attrs = <<>> THEN acc
  ELSE MetaDict(Tail(attrs),
         [k \in DOMAIN acc \cup {Head(attrs)[1]} |->
            IF k = Head(attrs)[1] THEN Strip(Head(attrs)[2]) ELSE acc[k]])

parse_card_meta_marker(marker) ==
  [id |-> Strip(marker.id), meta |-> MetaDict(marker.attrs, EmptyMap)]

NoCard == [id |-> "", kind |-> "", meta |-> EmptyCardMeta]

\* parse_comment_card_payload_text that hands the enclosing card's id to a
\* nested card of either header kind.
ParsePayloadInheritAnyKind(block, parent_hint) ==
  LET header == parse_comment_callout_header(block.header)
      marker == parse_card_meta_marker(block.marker)
      comment_id == IF marker.id # "" THEN marker.id ELSE header.id
      out_meta == [key \in Range(CardKeys) |-> Strip(Get(marker.meta, key))]
      author == IF out_meta["author"] # "" THEN out_meta["author"] ELSE header.author
      state == parse_state_token(IF out_meta["state"] # "" THEN out_meta["state"]
                                 ELSE header.state)
      parent == IF parent_hint # "" /\ out_meta["parent"] = ""
                  THEN Strip(parent_hint) ELSE out_meta["parent"]
  IN  IF ~header.ok \/ comment_id = "" THEN NoCard
      ELSE [id |-> comment_id, kind |-> header.kind,
            meta |-> [author |-> author, date |-> out_meta["date"], parent |-> parent,
                      state |-> state, paraId |-> out_meta["paraId"],
                      durableId |-> out_meta["durableId"],
                      presenceProvider |-> out_meta["presenceProvider"],
                      presenceUserId |-> out_meta["presenceUserId"],
                      text |-> normalize_markdown_comment_text(block.body)]]

\* parse_comment_card_payload_text (541-597)
parse_comment_card_payload_text(block, parent_hint) ==
  LET header == parse_comment_callout_header(block.header)
      marker == parse_card_meta_marker(block.marker)
      comment_id == IF marker.id # "" THEN marker.id ELSE header.id
      out_meta == [key \in Range(CardKeys) |-> Strip(Get(marker.meta, key))]
      author == IF out_meta["author"] # "" THEN out_meta["author"] ELSE header.author
      state == parse_state_token(IF out_meta["state"] # "" THEN out_meta["state"]
                                 ELSE header.state)
      parent == IF header.kind = "REPLY" /\ parent_hint # "" /\ out_meta["parent"] = ""
                  THEN Strip(parent_hint) ELSE out_meta["parent"]
  IN  IF ~header.ok \/ comment_id = "" THEN NoCard
      ELSE [id |-> comment_id, kind |-> header.kind,
            meta |-> [author |-> author, date |-> out_meta["date"], parent |-> parent,
                      state |-> state, paraId |-> out_meta["paraId"],
                      durableId |-> out_meta["durableId"],
                      presenceProvider |-> out_meta["presenceProvider"],
                      presenceUserId |-> out_meta["presenceUserId"],
                      text |-> normalize_markdown_comment_text(block.body)]]

\* parse_comment_card_blockquote (600-692): the card's own entry, then the
\* entries of the nested cards with parent_hint = the card's id.
RECURSIVE parse_comment_card_blockquote(_, _)
RECURSIVE ParseNestedCards(_, _, _)
parse_comment_card_blockquote(block, parent_hint) ==
  LET card == parse_comment_card_payload_text(block, parent_hint)
  IN  IF card.id = "" \/ card.kind \notin {"COMMENT", "REPLY"} THEN <<>>
      ELSE <<[id |-> card.id, meta |-> card.meta]>>
             \o ParseNestedCards(block.children, card.id, 1)

ParseNestedCards(quote_blocks, parent_hint, k) ==
  IF k > Len(quote_blocks) THEN <<>>
  ELSE parse_comment_card_blockquote(quote_blocks[k], parent_hint)
         \o ParseNestedCards(quote_blocks, parent_hint, k + 1)

\* parse_comment_cards_from_doc (714-794): entries of the top-level cards in
\* document order; card_by_id keeps the last entry of an id.
CardEntries(blocks) == ParseNestedCards(blocks, "", 1)

RECURSIVE FirstSeen(_, _)
FirstSeen(ids, acc) ==
  IF ids = <<>> THEN acc
  ELSE FirstSeen(Tail(ids), IF Head(ids) \in Range(acc) THEN acc ELSE Append(acc, Head(ids)))

parse_comment_cards_from_doc(blocks) ==
  LET entries == CardEntries(blocks)
      ids == {entries[i].id : i \in DOMAIN entries}
  IN  [order |-> FirstSeen([i \in DOMAIN entries |-> entries[i].id], <<>>),
       card_by_id |-> [cid \in ids |->
          LET last == CHOOSE i \in DOMAIN entries :
                        /\ entries[i].id = cid
                        /\ \A j \in DOMAIN entries : entries[j].id = cid => j <= i
          IN  entries[last].meta]]

\* seen_order (1976-1978, 1986-1988, 2154-2157): the ids of the comment-start
\* spans in reading order, then the ids of the cards.
SpanStartIds(inlines) ==
  LET starts == SelectSeq(inlines, LAMBDA node : node.t = "SpanStart")
  IN  [i \in DOMAIN starts |-> starts[i].id]

\* extract_comment_texts_from_markdown (1955-2290) on the normalized text
\* and the cards: the graph handed to the package writer, or the verdict of
\* the thread validation.
extract_comment_texts_from_markdown(inlines, cards) ==
  LET card_of(cid) == IF cid \in DOMAIN cards.card_by_id THEN cards.card_by_id[cid]
                      ELSE EmptyCardMeta
      seen_order == FirstSeen(SpanStartIds(inlines) \o cards.order, <<>>)
      ids == Range(seen_order)
      candidates == [cid \in {c \in ids : Strip(card_of(c).parent) # ""} |->
                       Strip(card_of(cid).parent)]
      verdict == ValidateThread(seen_order, candidates)
  IN  [ok |-> verdict.ok,
       issues |-> verdict.issues,
       ordered_ids |-> IF verdict.ok THEN seen_order ELSE <<>>,
       text_by_id |-> [cid \in ids |-> normalize_markdown_comment_text(card_of(cid).text)],
       author_by_id |-> [cid \in ids |-> Strip(card_of(cid).author)],
       date_by_id |-> [cid \in ids |-> Strip(card_of(cid).date)],
       parent_by_id |-> verdict.parent_by_id,
       state_by_id |-> [cid \in ids |-> parse_state_token(card_of(cid).state)]]

(***************************************************************************)
(* Card sub-model: a package's comments written as text and read back      *)
(***************************************************************************)
\* parse_docx_comments (3044-3143): one entry of comments.
CommentRecords ==
  [author : {"", "A"}, date : {"", "D"}, text : CommentTexts, resolved : BOOLEAN]

\* The paragraph of the package: every comment has its range around a word.
RECURSIVE DocInlines(_, _)
DocInlines(cs, k) ==
  IF k > Len(CardIds) THEN <<>>
  ELSE (IF CardIds[k] \in DOMAIN cs
          THEN <<SpanStart(CardIds[k]), Str(<<"w">>), SpanEnd(CardIds[k]), Space>>
          ELSE <<>>) \o DocInlines(cs, k + 1)

NoDoc == [prose |-> <<>>, cards |-> <<>>]

NoCommentData ==
  [ok |-> FALSE, issues |-> <<>>, ordered_ids |-> <<>>, text_by_id |-> EmptyMap,
   author_by_id |-> EmptyMap, date_by_id |-> EmptyMap, parent_by_id |-> EmptyMap,
   state_by_id |-> EmptyMap]

InitCard ==
  /\ pc_card = "start"
  /\ \E S \in SUBSET Range(CardIds) :
       /\ comments \in [S -> CommentRecords]
       /\ \E T \in SUBSET S :
            parent_map \in [T -> Range(CardIds) \cup {AbsentParentId}]
  /\ md_doc = NoDoc
  /\ comment_data = NoCommentData

IdleCard ==
  /\ pc_card = "idle"
  /\ comments = EmptyMap
  /\ parent_map = EmptyMap
  /\ md_doc = NoDoc
  /\ comment_data = NoCommentData

\* convert_docx_to_md (3373-3393): the cards are built from comments and
\* parent_map, child_ids is set(parent_map.keys()).
EncodeCards ==
  /\ pc_card = "start"
  /\ md_doc' = emit_milestones_and_cards_ast(DocInlines(comments, 1),
                   comment_cards_by_id(comments, parent_map), DOMAIN parent_map)
  /\ pc_card' = "encoded"
  /\ UNCHANGED <<comments, parent_map, comment_data>>
  /\ UNCHANGED notCard

\* convert_md_to_docx (3417-3428): the cards are taken out of the text, the
\* tokens become spans and the graph is extracted; a thread error ends the run.
DecodeCards ==
  /\ pc_card = "encoded"
  /\ comment_data' = extract_comment_texts_from_markdown(
                        expand_milestone_tokens_in_text(md_doc.prose),
                        parse_comment_cards_from_doc(md_doc.cards))
  /\ pc_card' = IF comment_data'.ok THEN "decoded" ELSE "error"
  /\ UNCHANGED <<comments, parent_map, md_doc>>
  /\ UNCHANGED notCard

NextCard == EncodeCards \/ DecodeCards

(***************************************************************************)
(* The two conversions: convert_md_to_docx (3398-3481) and                 *)
(* convert_docx_to_md (3308-3395), with the destination file, the calls of *)
(* the external converter and the media directory                          *)
(***************************************************************************)
MaxSourceLen == 2

\* The ids of the reply cards of the text; they carry no milestone token.
ReplyCardIds == <<"3">>

\* The files of the media directory, as paths relative to it.
MediaFiles == {<<"a">>, <<"b">>}

\* The targets of the image links of the text, as path segments.
LinkSrcs == {<<"media", "a">>, <<".", "media", "a">>, <<"a">>, <<"media", "b">>}

\* extract_media_refs_from_markdown (1842-1852): a leading "./" is dropped and
\* a target under media/ gives the path below it.
MediaRefOf(src) ==
  LET bare == IF src # <<>> /\ Head(src) = "." THEN Tail(src) ELSE src
  IN  IF bare # <<>> /\ Head(bare) = "media" THEN {Tail(bare)} ELSE {}

extract_media_refs_from_markdown(links) == UNION {MediaRefOf(src) : src \in links}

PruneUnreferenced(files, files_before, links) ==
  {rel \in files : rel \in extract_media_refs_from_markdown(links)}

\* prune_unreferenced_new_media (1855-1880): the files of the media directory
\* after the call.
prune_unreferenced_new_media(files, files_before, links) ==
  LET refs == extract_media_refs_from_markdown(links)
      created == files \ files_before
  IN  files \ {rel \in created : rel \notin refs}

\* seen_order of the text-to-package run: the ids of the comment-start spans
\* of the normalized text, then the ids of the cards (root cards, reply cards).
ConvOrderedIds(text, replies) ==
  LET normalized == normalize_milestone_tokens_ast(text)
      starts == SelectSeq(normalized, LAMBDA x : x.t = "span" /\ x.edge = "s")
      cards == SelectSeq(text, LAMBDA x : x.t = "card")
  IN  FirstSeen([i \in DOMAIN starts |-> starts[i].id]
                  \o [i \in DOMAIN cards |-> cards[i].id]
                  \o SelectSeq(ReplyCardIds, LAMBDA c : c \in DOMAIN replies), <<>>)

ThreadVerdictUnchecked(text, replies) ==
  [ok |-> TRUE, issues |-> <<>>, cycles |-> <<>>, parent_by_id |-> replies,
   child_ids |-> DOMAIN replies, root_ids |-> ConvOrderedIds(text, replies),
   ordered_ids |-> ConvOrderedIds(text, replies)]

\* extract_comment_texts_from_markdown (2183-2290) on the text of the run:
\* the verdict of the thread validation with ordered_ids.
ThreadVerdict(text, replies) ==
  LET ordered == ConvOrderedIds(text, replies)
      verdict == ValidateThread(ordered, replies)
  IN  [ok |-> verdict.ok, issues |-> verdict.issues, cycles |-> verdict.cycles,
       parent_by_id |-> verdict.parent_by_id, child_ids |-> verdict.child_ids,
       root_ids |-> verdict.root_ids,
       ordered_ids |-> IF verdict.ok THEN ordered ELSE <<>>]

\* Lines 2829-2888 of ensure_thread_reply_anchors: anchored holds the ids with
\* a range start, a range end and a reference in the package; the markers of
\* a reply are synthesized from its parent's when the parent has all three.
RECURSIVE EnsureAnchors(_, _, _, _)
EnsureAnchors(order, pmap, k, st) ==
  IF k > Len(order) THEN st
  ELSE
    LET child_id == order[k]
        parent_id == Get(pmap, child_id)
    IN  IF parent_id = "" \/ child_id \in st.anchored
          THEN EnsureAnchors(order, pmap, k + 1, st)
        ELSE IF parent_id \notin st.anchored
          THEN EnsureAnchors(order, pmap, k + 1,
                 [st EXCEPT !.unresolved = Append(@, child_id)])
        ELSE EnsureAnchors(order, pmap, k + 1,
               [st EXCEPT !.anchored = @ \cup {child_id}])

\* ensure_thread_reply_anchors (2820-2896): the unresolved replies; ValueError
\* is raised when there is one.
ensure_thread_reply_anchors(ordered_ids, pmap, anchored) ==
  IF DOMAIN pmap \cap Range(ordered_ids) = {} THEN <<>>
  ELSE EnsureAnchors(topological_comment_order(ordered_ids, pmap), pmap, 1,
                     [anchored |-> anchored, unresolved |-> <<>>]).unresolved

NoError == [kind |-> "none", issues |-> <<>>, cycles |-> <<>>]

ConverterFailure == [kind |-> "converter", issues |-> <<>>, cycles |-> <<>>]

NoVerdict ==
  [ok |-> FALSE, issues |-> <<>>, cycles |-> <<>>, parent_by_id |-> EmptyMap,
   child_ids |-> {}, root_ids |-> <<>>, ordered_ids |-> <<>>]

(***************************************************************************)
(* Conversion sub-model: state machine                                     *)
(***************************************************************************)
InitConv ==
  /\ pc_conv = "start"
  /\ direction \in {"md2docx", "docx2md"}
  /\ dest_before \in {"absent", "old"}
  /\ dest = dest_before
  /\ IF direction = "md2docx"
       THEN /\ in_text \in SeqsUpTo(Lexemes, MaxSourceLen)
            /\ \E S \in SUBSET Range(ReplyCardIds) :
                 reply_cards \in [S -> Range(MarkerIds) \cup S \cup {UnknownId}]
            /\ media_files = {}
       ELSE /\ in_text = <<>>
            /\ reply_cards = EmptyMap
            /\ media_files \in SUBSET MediaFiles
  /\ media_before = {}
  /\ files_after = {}
  /\ md_links = {}
  /\ comment_verdict = NoVerdict
  /\ conv_error = NoError

IdleConv ==
  /\ pc_conv = "idle"
  /\ direction = ""
  /\ dest_before = "absent"
  /\ dest = "absent"
  /\ in_text = <<>>
  /\ reply_cards = EmptyMap
  /\ media_files = {}
  /\ media_before = {}
  /\ files_after = {}
  /\ md_links = {}
  /\ comment_verdict = NoVerdict
  /\ conv_error = NoError

\* A call of the external converter that exits non-zero: CalledProcessError
\* ends the run; the call wrote nothing.
ConverterFails ==
  /\ pc_conv' = "error"
  /\ conv_error' = ConverterFailure
  /\ UNCHANGED <<direction, dest_before, dest, in_text, reply_cards, media_files,
                 media_before, files_after, md_links, comment_verdict>>

\* Lines 3404-3416: the text is sanitized and normalized in the temporary
\* directory (normalize_milestone_tokens_ast calls the converter).
M2D_Normalize ==
  /\ direction = "md2docx" /\ pc_conv = "start"
  /\ \/ /\ pc_conv' = "normalized"
        /\ UNCHANGED <<direction, dest_before, dest, in_text, reply_cards, media_files,
                       media_before, files_after, md_links, comment_verdict, conv_error>>
     \/ ConverterFails
  /\ UNCHANGED notConv

\* Lines 3417-3422: validate_comment_marker_integrity returns or raises.
M2D_ValidateMarkers ==
  /\ direction = "md2docx" /\ pc_conv = "normalized"
  /\ LET issues == validate_comment_marker_integrity(
                     in_text, normalize_milestone_tokens_ast(in_text), RootCardIds(in_text))
     IN  IF issues = <<>>
           THEN pc_conv' = "validated" /\ conv_error' = conv_error
           ELSE /\ pc_conv' = "error"
                /\ conv_error' = [kind |-> "marker", issues |-> issues, cycles |-> <<>>]
  /\ UNCHANGED <<direction, dest_before, dest, in_text, reply_cards, media_files,
                 media_before, files_after, md_links, comment_verdict>>
  /\ UNCHANGED notConv

\* Lines 3424-3428: extract_comment_texts_from_markdown calls the converter,
\* then returns comment_data or raises the thread error.
M2D_Extract ==
  /\ direction = "md2docx" /\ pc_conv = "validated"
  /\ \/ /\ comment_verdict' = ThreadVerdict(in_text, reply_cards)
        /\ IF comment_verdict'.ok
             THEN pc_conv' = "extracted" /\ conv_error' = conv_error
             ELSE /\ pc_conv' = "error"
                  /\ conv_error' = [kind |-> "thread", issues |-> comment_verdict'.issues,
                                    cycles |-> comment_verdict'.cycles]
        /\ UNCHANGED <<direction, dest_before, dest, in_text, reply_cards, media_files,
                       media_before, files_after, md_links>>
     \/ ConverterFails
  /\ UNCHANGED notConv

\* Lines 3429-3438: strip_comment_transport_attrs_ast calls the converter.
M2D_StripAttrs ==
  /\ direction = "md2docx" /\ pc_conv = "extracted"
  /\ \/ /\ pc_conv' = "stripped"
        /\ UNCHANGED <<direction, dest_before, dest, in_text, reply_cards, media_files,
                       media_before, files_after, md_links, comment_verdict, conv_error>>
     \/ ConverterFails
  /\ UNCHANGED notConv

\* Lines 3440-3448: run_pandoc writes out_docx; without comments the run ends.
M2D_RunPandoc ==
  /\ direction = "md2docx" /\ pc_conv = "stripped"
  /\ \/ /\ dest' = "converted"
        /\ pc_conv' = IF comment_verdict.ordered_ids = <<>> THEN "done" ELSE "converted"
        /\ UNCHANGED <<direction, dest_before, in_text, reply_cards, media_files,
                       media_before, files_after, md_links, comment_verdict, conv_error>>
     \/ ConverterFails
  /\ UNCHANGED notConv

\* Lines 3450-3481: out_docx is unpacked, the comment parts are rewritten,
\* ensure_thread_reply_anchors returns or raises, and the patched package is
\* copied over out_docx. The ids the converter gave all three anchors are its
\* choice among the ids with a start span.
M2D_Patch ==
  /\ direction = "md2docx" /\ pc_conv = "converted"
  /\ \E anchored \in SUBSET (Range(comment_verdict.ordered_ids) \ DOMAIN reply_cards) :
       LET unresolved == ensure_thread_reply_anchors(
                           comment_verdict.ordered_ids, comment_verdict.parent_by_id, anchored)
       IN  IF unresolved = <<>>
             THEN /\ dest' = "patched"
                  /\ pc_conv' = "done"
                  /\ conv_error' = conv_error
             ELSE /\ dest' = dest
                  /\ pc_conv' = "error"
                  /\ conv_error' = [kind |-> "anchor", issues |-> unresolved, cycles |-> <<>>]
  /\ UNCHANGED <<direction, dest_before, in_text, reply_cards, media_files,
                 media_before, files_after, md_links, comment_verdict>>
  /\ UNCHANGED notConv

\* Lines 3314-3354: media_before is taken, the package is read, run_pandoc
\* writes out_md and extracts the media files.
D2M_RunPandoc ==
  /\ direction = "docx2md" /\ pc_conv = "start"
  /\ \/ /\ media_before' = media_files
        /\ \E created \in SUBSET MediaFiles : media_files' = media_files \cup created
        /\ md_links' \in SUBSET LinkSrcs
        /\ dest' = "converted"
        /\ pc_conv' = "converted"
        /\ UNCHANGED <<direction, dest_before, in_text, reply_cards, files_after,
                       comment_verdict, conv_error>>
     \/ /\ media_before' = media_files
        /\ pc_conv' = "error"
        /\ conv_error' = ConverterFailure
        /\ UNCHANGED <<direction, dest_before, dest, in_text, reply_cards, media_files,
                       files_after, md_links, comment_verdict>>
  /\ UNCHANGED notConv

\* Lines 3355-3372: annotate_markdown_comment_attrs calls the converter and
\* rewrites out_md; the repaired and cleaned text is written to out_md.
D2M_Annotate ==
  /\ direction = "docx2md" /\ pc_conv = "converted"
  /\ \/ /\ dest' = "annotated"
        /\ pc_conv' = "annotated"
        /\ UNCHANGED <<direction, dest_before, in_text, reply_cards, media_files,
                       media_before, files_after, md_links, comment_verdict, conv_error>>
     \/ ConverterFails
  /\ UNCHANGED notConv

\* Lines 3373-3393: emit_milestones_and_cards_ast calls the converter and
\* rewrites out_md.
D2M_EmitCards ==
  /\ direction = "docx2md" /\ pc_conv = "annotated"
  /\ \/ /\ dest' = "emitted"
        /\ pc_conv' = "emitted"
        /\ UNCHANGED <<direction, dest_before, in_text, reply_cards, media_files,
                       media_before, files_after, md_links, comment_verdict, conv_error>>
     \/ ConverterFails
  /\ UNCHANGED notConv

\* Lines 3394-3395: prune_unreferenced_new_media on the final text.
D2M_PruneMedia ==
  /\ direction = "docx2md" /\ pc_conv = "emitted"
  /\ files_after' = media_files
  /\ media_files' = prune_unreferenced_new_media(media_files, media_before, md_links)
  /\ pc_conv' = "done"
  /\ UNCHANGED <<direction, dest_before, dest, in_text, reply_cards, media_before,
                 md_links, comment_verdict, conv_error>>
  /\ UNCHANGED notConv

NextConv ==
  \/ M2D_Normalize \/ M2D_ValidateMarkers \/ M2D_Extract \/ M2D_StripAttrs
  \/ M2D_RunPandoc \/ M2D_Patch
  \/ D2M_RunPandoc \/ D2M_Annotate \/ D2M_EmitCards \/ D2M_PruneMedia

(***************************************************************************)
(* Card placement: emit_milestones_and_cards_ast (1114-1304) on a document *)
(* of several top-level paragraphs                                         *)
(***************************************************************************)
\* The comment ids of the documents. The token written for "-7" is no
\* milestone token: the id class of MILESTONE_TOKEN_RE starts with a letter
\* or a digit.
PlaceIds == {"1", "2", "-7"}

PlaceInlines == {SpanStart(id) : id \in PlaceIds} \cup {SpanEnd(id) : id \in PlaceIds}

\* Paragraphs of up to two comment spans, documents of one to three paragraphs.
PlaceParagraphs ==
  {<<>>} \cup {<<a>> : a \in PlaceInlines} \cup {<<a, b>> : a \in PlaceInlines, b \in PlaceInlines}

PlaceDocs(paragraphs) ==
  {<<p>> : p \in paragraphs}
    \cup {<<p, q>> : p \in paragraphs, q \in paragraphs}
    \cup {<<p, q, r>> : p \in paragraphs, q \in paragraphs, r \in paragraphs}

Para(inlines) == [t |-> "Para", c |-> inlines, id |-> ""]

\* The card block of a root (cards_by_root_id, 1148-1151), named by its root.
CardBlock(cid) == [t |-> "BlockQuote", c |-> <<>>, id |-> cid]

\* walk_blocks (1072-1108): every paragraph's inlines are rewritten.
RewriteBlocks(blocks, child_ids) ==
  [i \in DOMAIN blocks |-> RewriteSpans(blocks[i], child_ids, 1)]

\* The inlines of the document in the order walk_blocks visits them.
RECURSIVE DocInlinesFrom(_, _)
DocInlinesFrom(blocks, i) ==
  IF i > Len(blocks) THEN <<>> ELSE blocks[i] \o DocInlinesFrom(blocks, i + 1)

\* push_marker_ids_from_text (1155-1167): the ids of the tokens of one edge
\* that MILESTONE_TOKEN_RE.finditer finds in a text.
RECURSIVE push_marker_ids_from_text(_, _, _)
push_marker_ids_from_text(text, i, edge) ==
  IF i > Len(text) THEN {}
  ELSE LET match == MilestoneTokenMatch(text, i)
       IN  IF match.ok
             THEN (IF match.edge = edge THEN {match.id} ELSE {})
                    \cup push_marker_ids_from_text(text, match.end, edge)
             ELSE push_marker_ids_from_text(text, i + 1, edge)

\* scan_inlines_for_markers (1169-1203) on the inlines of a paragraph
scan_inlines_for_markers(inlines, edge) ==
  UNION {push_marker_ids_from_text(inlines[k].c, 1, edge) :
           k \in {j \in DOMAIN inlines : inlines[j].t = "Str"}}

\* block_markers_in_subtree (1214-1260)
block_markers_in_subtree(block) ==
  [starts |-> scan_inlines_for_markers(block, "s"),
   ends |-> scan_inlines_for_markers(block, "e")]

\* block_markers_in_subtree of every top-level block (1267-1268)
RECURSIVE MarkersOfBlocks(_, _)
MarkersOfBlocks(top_blocks, idx) ==
  IF idx > Len(top_blocks) THEN <<>>
  ELSE <<block_markers_in_subtree(top_blocks[idx])>> \o MarkersOfBlocks(top_blocks, idx + 1)

\* first_start_index (1263-1270): the first top-level block with a START
\* token of the root, 0 when there is none.
first_start_index(markers, cid) ==
  IF \E idx \in DOMAIN markers : cid \in markers[idx].starts
    THEN CHOOSE idx \in DOMAIN markers :
           /\ cid \in markers[idx].starts
           /\ \A k \in 1..(idx - 1) : cid \notin markers[k].starts
    ELSE 0

\* last_end_index (1271-1273): the last top-level block with an END token of
\* the root, 0 when there is none.
last_end_index(markers, cid) ==
  IF \E idx \in DOMAIN markers : cid \in markers[idx].ends
    THEN CHOOSE idx \in DOMAIN markers :
           /\ cid \in markers[idx].ends
           /\ \A k \in (idx + 1)..Len(markers) : cid \notin markers[k].ends
    ELSE 0

\* insert_after that looks at the START tokens only.
InsertAfterFirstStart(markers, cid) == first_start_index(markers, cid)

\* insert_after (1281): the block of the last END, else of the first START,
\* else none (0).
insert_after(markers, cid) ==
  IF last_end_index(markers, cid) # 0 THEN last_end_index(markers, cid)
  ELSE first_start_index(markers, cid)

\* cards_after_index and pending_append (1275-1285): the cards of the roots
\* whose insert_after is idx, in start_order; idx 0 is pending_append.
cards_after_index(markers, start_order, idx) ==
  LET here == {cid \in Range(start_order) : insert_after(markers, cid) = idx}
      ids == KeepIn(start_order, here)
  IN  [k \in DOMAIN ids |-> CardBlock(ids[k])]

\* out_blocks (1287-1292)
RECURSIVE OutBlocksFrom(_, _, _, _)
OutBlocksFrom(top_blocks, markers, start_order, idx) ==
  IF idx > Len(top_blocks) THEN cards_after_index(markers, start_order, 0)
  ELSE <<Para(top_blocks[idx])>>
         \o cards_after_index(markers, start_order, idx)
         \o OutBlocksFrom(top_blocks, markers, start_order, idx + 1)

\* emit_milestones_and_cards_ast (1122-1293) on the blocks of a document
place_cards_in_doc(blocks, child_ids) ==
  LET top_blocks == RewriteBlocks(blocks, child_ids)
      start_order == StartOrder(DocInlinesFrom(blocks, 1), child_ids, 1, <<>>)
      markers == MarkersOfBlocks(top_blocks, 1)
  IN  OutBlocksFrom(top_blocks, markers, start_order, 1)

InitPlace ==
  /\ pc_place = "start"
  /\ place_blocks \in PlaceDocs(PlaceParagraphs)
  /\ place_child_ids \in {{}, {"2"}}
  /\ place_out = <<>>

IdlePlace ==
  /\ pc_place = "idle"
  /\ place_blocks = <<>>
  /\ place_child_ids = {}
  /\ place_out = <<>>

\* emit_milestones_and_cards_ast (1114-1304)
EmitCardsInDoc ==
  /\ pc_place = "start"
  /\ place_out' = place_cards_in_doc(place_blocks, place_child_ids)
  /\ pc_place' = "emitted"
  /\ UNCHANGED <<place_blocks, place_child_ids>>
  /\ UNCHANGED notPlace

NextPlace == EmitCardsInDoc

(***************************************************************************)
(* Nested cards written by hand and read by parse_comment_cards_from_doc   *)
(* (714-794) through parse_comment_card_blockquote (600-692)               *)
(***************************************************************************)
NestKinds == {"COMMENT", "REPLY"}

\* The parent a card's CARD_META gives: none, a card of the text, or an id
\* that is no card.
NestParents == {"", "1", "2", AbsentParentId}

\* A card as build_comment_card_blockquote lays it out (980-998), with the
\* header kind and the parent key chosen by the writer of the text.
HandCard(kind, comment_id, parent, children) ==
  [header |-> HeaderText(kind, comment_id, "A", "active"),
   marker |-> [id |-> comment_id,
               attrs |-> IF parent = "" THEN <<>> ELSE <<<<"parent", parent>>>>],
   body |-> <<"w">>,
   children |-> children]

\* Card 1 at the top level, card 2 inside it, card 3 inside card 2.
NestDocs ==
  {<<HandCard(k1, "1", p1, <<HandCard(k2, "2", p2, <<HandCard(k3, "3", p3, <<>>)>>)>>)>> :
     k1 \in NestKinds, p1 \in NestParents, k2 \in NestKinds, p2 \in NestParents,
     k3 \in NestKinds, p3 \in NestParents}

\* The prose of the text: one START and one END token for each anchored id.
RECURSIVE NestProse(_, _)
NestProse(anchored, k) ==
  IF k > Len(SortedIds) THEN <<Lexeme("nl", "", "")>>
  ELSE (IF SortedIds[k] \in anchored
          THEN <<Lexeme("tok", SortedIds[k], "s"), Lexeme("word", "", ""),
                 Lexeme("tok", SortedIds[k], "e")>>
          ELSE <<>>) \o NestProse(anchored, k + 1)

\* The CARD_META comments of the cards in the order of the text; the lexeme
\* "card" stands for a CARD_META whose attributes hold no parent (1380-1382).
RECURSIVE NestCardLines(_, _)
NestCardLines(blocks, k) ==
  IF k > Len(blocks) THEN <<>>
  ELSE (IF Strip(Get(parse_card_meta_marker(blocks[k].marker).meta, "parent")) = ""
          THEN <<Lexeme("card", blocks[k].marker.id, ""), Lexeme("nl", "", "")>>
          ELSE <<Lexeme("nl", "", "")>>)
       \o NestCardLines(blocks[k].children, 1)
       \o NestCardLines(blocks, k + 1)

\* The text in.md of convert_md_to_docx (3404): the prose, then the cards.
NestSourceText(doc, anchored) == NestProse(anchored, 1) \o NestCardLines(doc, 1)

\* Lines 1434-1440: the decoded cards without parent.
CardsWithoutParent(card_by_id) ==
  {cid \in DOMAIN card_by_id : Strip(card_by_id[cid].parent) = ""}

InitNest ==
  /\ pc_nest = "start"
  /\ nest_doc \in NestDocs
  /\ nest_cards = EmptyMap
  /\ nest_anchored \in SUBSET {"1", "2", "3"}
  /\ nest_issues = <<>>

IdleNest ==
  /\ pc_nest = "idle"
  /\ nest_doc = <<>>
  /\ nest_cards = EmptyMap
  /\ nest_anchored = {}
  /\ nest_issues = <<>>

\* parse_comment_cards_from_doc (714-794)
DecodeNestedCards ==
  /\ pc_nest = "start"
  /\ nest_cards' = parse_comment_cards_from_doc(nest_doc).card_by_id
  /\ pc_nest' = "decoded"
  /\ UNCHANGED <<nest_doc, nest_anchored, nest_issues>>
  /\ UNCHANGED notNest

NestMarkerIssuesNow ==
  validate_comment_marker_integrity(
    NestSourceText(nest_doc, nest_anchored),
    normalize_milestone_tokens_ast(NestSourceText(nest_doc, nest_anchored)),
    CardsWithoutParent(nest_cards))

\* convert_md_to_docx (3417-3422): validate_comment_marker_integrity on the
\* text and the decoded cards; it raises when there is an issue.
ValidateNestedMarkers ==
  /\ pc_nest = "decoded"
  /\ nest_issues' = NestMarkerIssuesNow
  /\ pc_nest' = IF NestMarkerIssuesNow = <<>> THEN "passed" ELSE "failed"
  /\ UNCHANGED <<nest_doc, nest_cards, nest_anchored>>
  /\ UNCHANGED notNest

NextNest == DecodeNestedCards \/ ValidateNestedMarkers

(***************************************************************************)
(* The state of one comment on its way from a text into a package          *)
(* (extract_comment_texts_from_markdown 1975-2256,                         *)
(* rewrite_comments_extended_state 2659-2664) and from the package back    *)
(* into a text (parse_docx_comments 3116-3141, convert_docx_to_md          *)
(* 3320-3385)                                                              *)
(***************************************************************************)
\* State values as a text may hold them: none, blank, the two proper ones,
\* another spelling of resolved, and a value that is no state.
StateTokens == {"", " ", "active", "resolved", "Resolved ", "1"}

\* The comment-start span of comment 1: with or without a state key.
StateSpans == [has : BOOLEAN, value : StateTokens]

\* The card of comment 1, if the text has one: a header with its state and a
\* CARD_META with or without a state key.
StateCards ==
  {<<>>}
    \cup {<<[header |-> HeaderText("COMMENT", "1", "A", hs),
             marker |-> [id |-> "1", attrs |-> attrs],
             body |-> <<"w">>,
             children |-> <<>>]>> :
            hs \in {"active", "resolved"},
            attrs \in {<<>>} \cup {<<<<"state", v>>>> : v \in StateTokens}}

\* extract_comment_texts_from_markdown, the state of the comment: active at
\* ensure_comment_id (1975-1976), the state key of the span (2008-2009), the
\* state of the card (2170), normalised once more at 2255-2256.
ExtractedState(span, cards) ==
  LET from_span == IF span.has THEN parse_state_token(span.value) ELSE "active"
      card_by_id == parse_comment_cards_from_doc(cards).card_by_id
      from_card == IF "1" \in DOMAIN card_by_id
                     THEN parse_state_token(card_by_id["1"].state) ELSE from_span
  IN  parse_state_token(from_card)

\* rewrite_comments_extended_state (2659-2662): the done attribute of commentEx
done_flag_of(state) == IF parse_state_token(state) = "resolved" THEN "1" ELSE "0"

\* parse_docx_comments (3118-3122, 3141) and convert_docx_to_md (3326)
state_of_done(done) == IF Strip(done) = "1" THEN "resolved" ELSE "active"

NoStateOut == [span |-> <<>>, card |-> <<>>]

InitState ==
  /\ pc_state = "start"
  /\ st_span \in StateSpans
  /\ st_cards \in StateCards
  /\ st_graph = ""
  /\ st_done = ""
  /\ st_out = NoStateOut

IdleState ==
  /\ pc_state = "idle"
  /\ st_span = [has |-> FALSE, value |-> ""]
  /\ st_cards = <<>>
  /\ st_graph = ""
  /\ st_done = ""
  /\ st_out = NoStateOut

\* extract_comment_texts_from_markdown (1955-2290): state_by_id of the comment
ExtractState ==
  /\ pc_state = "start"
  /\ st_graph' = ExtractedState(st_span, st_cards)
  /\ pc_state' = "decoded"
  /\ UNCHANGED <<st_span, st_cards, st_done, st_out>>
  /\ UNCHANGED notState

\* rewrite_comments_extended_state (2566-2700): commentsExtended.xml is written
WriteExtendedState ==
  /\ pc_state = "decoded"
  /\ st_done' = done_flag_of(st_graph)
  /\ pc_state' = "written"
  /\ UNCHANGED <<st_span, st_cards, st_graph, st_out>>
  /\ UNCHANGED notState

\* convert_docx_to_md (3320-3393): the package is read, the span is annotated
\* and the card is built.
EmitState ==
  /\ pc_state = "written"
  /\ LET state == state_of_done(st_done)
         maps == GraphMaps(EmptyMap, OneEntry("1", state), EmptyMap, EmptyMap,
                           EmptyMap, EmptyMap)
         span == [identifier |-> "1", classes |-> {"comment-start"}, kvs |-> <<>>]
         meta == [EmptyCardMeta EXCEPT !.author = "A", !.state = state]
     IN  st_out' = [span |-> <<annotate_markdown_comment_attrs(span, maps).attr>>,
                    card |-> <<build_comment_card_blockquote("1", meta, <<>>)>>]
  /\ pc_state' = "emitted"
  /\ UNCHANGED <<st_span, st_cards, st_graph, st_done>>
  /\ UNCHANGED notState

NextState == ExtractState \/ WriteExtendedState \/ EmitState

(***************************************************************************)
(* MarkerRepairer: repair_unbalanced_comment_markers (1635-1694)           *)
(***************************************************************************)
MaxRepairLen == 4

\* The ids of the spans of the text.
RepairIds == <<"1", "2", "3">>

\* A piece of the text: the attribute block of a comment-start span with its
\* id and parent keys, the attribute block of a comment-end span, or a word.
StartBlock(id, parent) == [t |-> "start", id |-> id, parent |-> parent]

EndBlock(id) == [t |-> "end", id |-> id, parent |-> ""]

Word == [t |-> "w", id |-> "", parent |-> ""]

\* Comment 1 and 2 may name each other as parent, comment 3 answers 2.
RepairPieces ==
  {StartBlock("1", p) : p \in {"", "2"}} \cup {StartBlock("2", p) : p \in {"", "1"}}
    \cup {StartBlock("3", "2")}
    \cup {EndBlock(id) : id \in Range(RepairIds)} \cup {Word}

\* starts (1639-1650): the start blocks in text order; pos_end is the offset
\* behind the block.
RepairStarts(text) ==
  LET at == SelectSeq([i \in DOMAIN text |-> i], LAMBDA i : text[i].t = "start")
  IN  [k \in DOMAIN at |->
         [id |-> text[at[k]].id, parent |-> text[at[k]].parent, pos_end |-> at[k]]]

\* end_positions_by_id (1652-1657)
end_positions_by_id(text) ==
  [cid \in {text[i].id : i \in {j \in DOMAIN text : text[j].t = "end"}} |->
     {i \in DOMAIN text : text[i] = EndBlock(cid)}]

\* missing_ids (1662): the ids of the starts without any end, in text order.
missing_ids(text) ==
  LET starts == RepairStarts(text)
      ids == [k \in DOMAIN starts |-> starts[k].id]
  IN  SelectSeq(ids, LAMBDA cid : cid \notin DOMAIN end_positions_by_id(text))

\* starts_by_id (1666): of two starts with one id the later one stays.
starts_by_id(text, cid) ==
  LET starts == RepairStarts(text)
      last == CHOOSE k \in DOMAIN starts :
                /\ starts[k].id = cid
                /\ \A j \in DOMAIN starts : starts[j].id = cid => j <= k
  IN  starts[last]

\* children (1667-1671): the ids of the starts that name pid as parent.
RepairChildren(text, pid) ==
  LET starts == RepairStarts(text)
      named == SelectSeq(starts, LAMBDA s : Strip(s.parent) # "" /\ Strip(s.parent) = pid)
  IN  [k \in DOMAIN named |-> named[k].id]

\* descendant_end_positions (1673-1682); seen is one set for the whole walk.
RECURSIVE descendant_end_positions(_, _, _)
RECURSIVE DescendantsOfChildren(_, _, _, _)
descendant_end_positions(text, cid, seen) ==
  IF cid \in seen THEN [out |-> {}, seen |-> seen]
  ELSE DescendantsOfChildren(text, RepairChildren(text, cid), 1, seen \cup {cid})

DescendantsOfChildren(text, child_list, k, seen) ==
  IF k > Len(child_list) THEN [out |-> {}, seen |-> seen]
  ELSE
    LET ends == IF child_list[k] \in DOMAIN end_positions_by_id(text)
                  THEN end_positions_by_id(text)[child_list[k]] ELSE {}
        below == descendant_end_positions(text, child_list[k], seen)
        rest == DescendantsOfChildren(text, child_list, k + 1, below.seen)
    IN  [out |-> ends \cup below.out \cup rest.out, seen |-> rest.seen]

\* insertions that always stand behind the comment's own start.
RepairInsertionsAtStart(text) ==
  LET missing == missing_ids(text)
  IN  [k \in DOMAIN missing |->
         [pos |-> starts_by_id(text, missing[k]).pos_end,
          token |-> EndBlock(missing[k])]]

\* insertions (1684-1689): one per entry of missing_ids, at the latest end of
\* a descendant, else behind the comment's own start.
RepairInsertions(text) ==
  LET missing == missing_ids(text)
  IN  [k \in DOMAIN missing |->
         LET base == starts_by_id(text, missing[k]).pos_end
             desc_ends == descendant_end_positions(text, missing[k], {}).out
         IN  [pos |-> IF desc_ends # {}
                        THEN CHOOSE p \in desc_ends : \A q \in desc_ends : q <= p
                        ELSE base,
              token |-> EndBlock(missing[k])]]

\* Lines 1691-1693: the insertions are made from the highest offset down; of
\* two at one offset the one made later stands first.
RECURSIVE TokensAt(_, _, _)
TokensAt(insertions, pos, k) ==
  IF k > Len(insertions) THEN <<>>
  ELSE TokensAt(insertions, pos, k + 1)
         \o (IF insertions[k].pos = pos THEN <<insertions[k].token>> ELSE <<>>)

RECURSIVE ApplyInsertions(_, _, _)
ApplyInsertions(text, insertions, i) ==
  IF i > Len(text) THEN <<>>
  ELSE <<text[i]>> \o TokensAt(insertions, i, 1) \o ApplyInsertions(text, insertions, i + 1)

\* repair_unbalanced_comment_markers (1635-1694)
repair_unbalanced_comment_markers(text) ==
  IF RepairStarts(text) = <<>> THEN [text |-> text, count |-> 0]
  ELSE IF missing_ids(text) = <<>> THEN [text |-> text, count |-> 0]
  ELSE [text |-> ApplyInsertions(text, RepairInsertions(text), 1),
        count |-> Len(RepairInsertions(text))]

InitRepair ==
  /\ pc_repair = "start"
  /\ repair_texts \in {<<text>> : text \in SeqsUpTo(RepairPieces, MaxRepairLen)}
  /\ repair_counts = <<>>

IdleRepair ==
  /\ pc_repair = "idle"
  /\ repair_texts = <<>>
  /\ repair_counts = <<>>

\* One call of the repairer on the current text.
Repair(next_pc) ==
  LET result == repair_unbalanced_comment_markers(repair_texts[Len(repair_texts)])
  IN  /\ repair_texts' = Append(repair_texts, result.text)
      /\ repair_counts' = Append(repair_counts, result.count)
      /\ pc_repair' = next_pc
      /\ UNCHANGED notRepair

\* convert_docx_to_md (3368-3369)
RepairFirst == pc_repair = "start" /\ Repair("once")

\* A second call on the repaired text.
RepairAgain == pc_repair = "once" /\ Repair("twice")

NextRepair == RepairFirst \/ RepairAgain

(***************************************************************************)
(* PackageWriter: rewrite_comments_extended_state (2568-2695) with         *)
(* generate_unique_para_id and generate_unique_durable_id (2391-2408)      *)
(***************************************************************************)
\* The comments of the write sub-model.
WriteIds == {"1", "2"}

\* The values an eight-digit checksum can take, here four of them; the first
\* is the all-zero value.
ChecksumValues == <<"00000000", "0000000A", "0000000B", "0000000C">>

\* Stable ids as a card or a part of the package may carry them.
CardStableIds == {"", "0000000A", "0000000B"}

\* zlib.crc32(f"{seed}:{counter}") & 0xFFFFFFFF as eight hex digits (2394,
\* 2404).  The checksum is a fixed function of the seed and the counter; the
\* model takes the value of counter 0 from checksum_of_seed and steps through
\* the values with the counter.
crc32_hex(checksum_of_seed, seed, counter) ==
  LET first == IF seed \in DOMAIN checksum_of_seed THEN checksum_of_seed[seed] ELSE 0
  IN  ChecksumValues[((first + counter) % Len(ChecksumValues)) + 1]

\* generate_unique_para_id and generate_unique_durable_id (the same loop):
\* the first candidate that is not all-zero and not in the used set.
RECURSIVE generate_unique_id(_, _, _, _)
generate_unique_id(checksum_of_seed, seed, used_ids, counter) ==
  LET candidate == crc32_hex(checksum_of_seed, seed, counter)
  IN  IF candidate # "00000000" /\ candidate \notin used_ids THEN candidate
      ELSE generate_unique_id(checksum_of_seed, seed, used_ids, counter + 1)

\* Lines 2588-2605: the paragraph ids comments.xml holds before the write.
used_para_ids_of(comments_xml) ==
  {comments_xml[c][i] : c \in DOMAIN comments_xml, i \in 1..2} \ {""}

\* load_comments_ids_durable_map (2548-2565) on the ids part of the package
existing_durable_by_para(ids_part) ==
  [p \in {e.paraId : e \in {x \in Range(ids_part) : x.paraId # "" /\ x.durableId # ""}} |->
     LET last == CHOOSE i \in DOMAIN ids_part :
                   /\ ids_part[i].paraId = p /\ ids_part[i].durableId # ""
                   /\ \A j \in DOMAIN ids_part :
                        (ids_part[j].paraId = p /\ ids_part[j].durableId # "") => j <= i
     IN  ids_part[last].durableId]

used_durable_ids_of(ids_part) == {e.durableId : e \in Range(ids_part)} \ {""}

\* Lines 2612-2650: the loop over ordered that fills comment_meta_by_id.  A
\* comment of comments.xml is the pair of the paraId attribute of the comment
\* element and the paraId of its last paragraph.
RECURSIVE CollectMeta(_, _, _, _, _, _, _)
CollectMeta(ordered, k, para_by_id, durable_by_id, existing_durable, checksum_of_seed, acc) ==
  IF k > Len(ordered) THEN acc
  ELSE
    LET cid == ordered[k]
        comment == acc.comments_xml[cid]
        preferred_para_id == Strip(Get(para_by_id, cid))
        found == IF comment[2] # "" THEN comment[2] ELSE comment[1]
        para_id == IF preferred_para_id # "" THEN preferred_para_id
                   ELSE IF found = ""
                     THEN generate_unique_id(checksum_of_seed, "comment-" \o cid,
                                             acc.used_para_ids, 0)
                   ELSE found
        thread_p == IF preferred_para_id # ""
                      THEN (IF found # preferred_para_id THEN preferred_para_id ELSE comment[2])
                    ELSE IF found = "" THEN para_id
                    ELSE comment[2]
        given_durable == IF Strip(Get(durable_by_id, cid)) # ""
                           THEN Strip(Get(durable_by_id, cid))
                           ELSE Get(existing_durable, para_id)
        durable_id == IF given_durable = ""
                        THEN generate_unique_id(checksum_of_seed, "durable-" \o para_id,
                                                acc.used_durable_ids, 0)
                        ELSE given_durable
    IN  CollectMeta(ordered, k + 1, para_by_id, durable_by_id, existing_durable,
                    checksum_of_seed,
                    [meta |-> [c \in DOMAIN acc.meta \cup {cid} |->
                                 IF c = cid THEN [para_id |-> para_id, durable_id |-> durable_id]
                                 ELSE acc.meta[c]],
                     used_para_ids |-> acc.used_para_ids \cup {para_id},
                     used_durable_ids |-> acc.used_durable_ids \cup {durable_id},
                     comments_xml |-> [acc.comments_xml EXCEPT ![cid] = <<comment[1], thread_p>>]])

\* Lines 2655-2670: commentsExtended.xml, one commentEx for each comment.
comments_ext_entries(ordered, meta, parent_of, state_by_id) ==
  LET entry(cid) ==
        LET parent_id == Strip(Get(parent_of, cid))
            parent_para_id == IF parent_id # "" /\ parent_id \in DOMAIN meta
                                THEN Strip(meta[parent_id].para_id) ELSE ""
        IN  [paraId |-> meta[cid].para_id,
             done |-> IF parse_state_token(Get(state_by_id, cid)) = "resolved" THEN "1" ELSE "0",
             paraIdParent |-> parent_para_id]
      kept == SelectSeq(ordered, LAMBDA c : meta[c].para_id # "")
  IN  [i \in 1..Len(kept) |-> entry(kept[i])]

\* Lines 2672-2687: commentsIds.xml and commentsExtensible.xml.
comments_ids_entries(ordered, meta) ==
  LET kept == SelectSeq(ordered, LAMBDA c : meta[c].para_id # "" /\ meta[c].durable_id # "")
  IN  [i \in 1..Len(kept) |-> [paraId |-> meta[kept[i]].para_id,
                               durableId |-> meta[kept[i]].durable_id]]

comments_extensible_entries(ordered, meta) ==
  LET kept == SelectSeq(ordered, LAMBDA c : meta[c].para_id # "" /\ meta[c].durable_id # "")
  IN  [i \in 1..Len(kept) |-> [durableId |-> meta[kept[i]].durable_id]]

\* rewrite_comments_extended_state: comments.xml after the write, the meta of
\* the comments and the three parts.
rewrite_comments_extended_state(comments_xml, parts, ordered_ids, parent_of, state_by_id, para_by_id, durable_by_id, checksum_of_seed) ==
  LET ordered == SelectSeq(topological_comment_order(ordered_ids, parent_of),
                           LAMBDA c : c \in DOMAIN comments_xml)
      done == CollectMeta(ordered, 1, para_by_id, durable_by_id,
                          existing_durable_by_para(parts.ids), checksum_of_seed,
                          [meta |-> EmptyMap,
                           used_para_ids |-> used_para_ids_of(comments_xml),
                           used_durable_ids |-> used_durable_ids_of(parts.ids),
                           comments_xml |-> comments_xml])
  IN  IF Len(ordered) = 0
        THEN [comments_xml |-> comments_xml, meta |-> EmptyMap, parts |-> parts, ordered |-> <<>>]
        ELSE [comments_xml |-> done.comments_xml,
              meta |-> done.meta,
              ordered |-> ordered,
              parts |-> [ext |-> comments_ext_entries(ordered, done.meta, parent_of, state_by_id),
                         ids |-> comments_ids_entries(ordered, done.meta),
                         extensible |-> comments_extensible_entries(ordered, done.meta)]]

(***************************************************************************)
(* Write sub-model: state machine                                          *)
(***************************************************************************)
NoParts == [ext |-> <<>>, ids |-> <<>>, extensible |-> <<>>]

\* The three parts as another document left them: one comment with the
\* paragraph id 0000000A, resolved, and a durable id.
OldParts ==
  [ext |-> <<[paraId |-> "0000000A", done |-> "1", paraIdParent |-> "0000000F"]>>,
   ids |-> <<[paraId |-> "0000000A", durableId |-> "0000000B"]>>,
   extensible |-> <<[durableId |-> "0000000B"]>>]

\* ordered_ids and parent_by_id as extract_comment_texts_from_markdown
\* returns them: every parent is a comment of the list, no cycle.
WriteThreads ==
  {[ordered |-> o, parent |-> p] :
     o \in {<<"1">>, <<"1", "2">>, <<"2", "1">>},
     p \in {EmptyMap, OneEntry("2", "1")}}

InitWrite ==
  /\ pc_write = "start"
  /\ \E t \in WriteThreads :
       /\ t.parent = EmptyMap \/ Len(t.ordered) = 2
       /\ w_ordered = t.ordered
       /\ w_parent = t.parent
  /\ w_state \in [Range(w_ordered) -> {"active", "resolved"}]
  /\ w_para \in [Range(w_ordered) -> CardStableIds]
  /\ w_durable \in [Range(w_ordered) -> CardStableIds]
  \* comments.xml: the paraId of the comment element and of its last paragraph
  /\ w_comments \in [Range(w_ordered) -> {<<"", "">>, <<"", "0000000A">>}]
  /\ \A c, d \in Range(w_ordered) : (c # d /\ w_comments[c][2] # "") => w_comments[c] # w_comments[d]
  /\ w_parts \in {NoParts, OldParts}
  /\ w_crc \in [{"comment-" \o c : c \in Range(w_ordered)} -> {0, 1}]
  /\ w_meta = EmptyMap

IdleWrite ==
  /\ pc_write = "idle"
  /\ w_ordered = <<>>
  /\ w_parent = EmptyMap
  /\ w_state = EmptyMap
  /\ w_para = EmptyMap
  /\ w_durable = EmptyMap
  /\ w_comments = EmptyMap
  /\ w_parts = NoParts
  /\ w_crc = EmptyMap
  /\ w_meta = EmptyMap

\* convert_md_to_docx 3470-3478: the call of rewrite_comments_extended_state
RewriteExtendedState ==
  /\ pc_write = "start"
  /\ LET out == rewrite_comments_extended_state(w_comments, w_parts, w_ordered, w_parent,
                                                w_state, w_para, w_durable, w_crc)
     IN  /\ w_comments' = out.comments_xml
         /\ w_parts' = out.parts
         /\ w_meta' = out.meta
  /\ pc_write' = "written"
  /\ UNCHANGED <<w_ordered, w_parent, w_state, w_para, w_durable, w_crc>>
  /\ UNCHANGED notWrite

NextWrite == RewriteExtendedState

(***************************************************************************)
(* Package relationships and content types: ensure_word_relationship       *)
(* (2411-2446) and ensure_word_content_type_override (2449-2478)           *)
(***************************************************************************)
MaxRels == 2

\* Id attributes as a relationships part may hold them, and the number that
\* re.match(r"^rId([0-9]+)$", rid) reads from each (0: no match).
RelIdNumbers ==
  <<<<"rId1", 1>>, <<"rId2", 2>>, <<"rId02", 2>>, <<"rId3", 3>>, <<"docRel4", 0>>, <<"", 0>>>>

RelIds == {RelIdNumbers[i][1] : i \in DOMAIN RelIdNumbers}

\* int(m.group(1)) of line 2427, 0 when the Id does not match
rid_number(rid) ==
  LET i == CHOOSE k \in DOMAIN RelIdNumbers : RelIdNumbers[k][1] = rid
  IN  RelIdNumbers[i][2]

\* f"rId{max_rid + 1}" (2439)
rid_of_number(n) == "rId" \o ToString(n)

CommentsExtRelType == "relationships/commentsExtended"

OtherRelType == "relationships/styles"

RelTargets == {"commentsExtended.xml", "styles.xml"}

\* The children of the Relationships element; tag is the local name.
RelElements ==
  [tag : {"Relationship"}, Id : RelIds, Type : {CommentsExtRelType, OtherRelType},
   Target : RelTargets]
    \cup {[tag |-> "Extension", Id |-> "rId3", Type |-> CommentsExtRelType,
           Target |-> "commentsExtended.xml"]}

RECURSIVE MaxRid(_, _, _)
MaxRid(root, i, max_rid) ==
  IF i > Len(root) THEN max_rid
  ELSE IF root[i].tag # "Relationship" THEN MaxRid(root, i + 1, max_rid)
  ELSE MaxRid(root, i + 1,
              IF rid_number(root[i].Id) > max_rid THEN rid_number(root[i].Id) ELSE max_rid)

\* The upsert that appends an entry whether or not one of the type exists.
EnsureRelationshipAlwaysAppend(root, rel_type, target) ==
  [root |-> Append(root, [tag |-> "Relationship",
                          Id |-> rid_of_number(MaxRid(root, 1, 0) + 1),
                          Type |-> rel_type, Target |-> target]),
   changed |-> TRUE]

\* ensure_word_relationship on the children of the Relationships element:
\* the part after the call and the value returned.
ensure_word_relationship(root, rel_type, target) ==
  LET is_rel(i) == root[i].tag = "Relationship" /\ root[i].Type = rel_type
      has_ext_rel == \E i \in DOMAIN root : is_rel(i)
      retargeted == [i \in DOMAIN root |->
                       IF is_rel(i) THEN [root[i] EXCEPT !.Target = target] ELSE root[i]]
  IN  IF has_ext_rel
        THEN [root |-> retargeted, changed |-> retargeted # root]
        ELSE [root |-> Append(root, [tag |-> "Relationship",
                                     Id |-> rid_of_number(MaxRid(root, 1, 0) + 1),
                                     Type |-> rel_type, Target |-> target]),
              changed |-> TRUE]

CommentsExtPartName == "/word/commentsExtended.xml"

CommentsExtContentType == "application/commentsExtended+xml"

\* The children of the Types element.
ContentTypeElements ==
  [tag : {"Override"}, PartName : {CommentsExtPartName, "/word/styles.xml"},
   ContentType : {CommentsExtContentType, "application/xml"}]
    \cup {[tag |-> "Default", PartName |-> CommentsExtPartName,
           ContentType |-> CommentsExtContentType]}

\* ensure_word_content_type_override on the children of the Types element.
ensure_word_content_type_override(root, part_name, content_type) ==
  LET is_override(i) == root[i].tag = "Override" /\ root[i].PartName = part_name
      has_override == \E i \in DOMAIN root : is_override(i)
      first == CHOOSE i \in DOMAIN root : is_override(i) /\ \A j \in 1..(i - 1) : ~is_override(j)
  IN  IF has_override
        THEN [root |-> [root EXCEPT ![first].ContentType = content_type],
              changed |-> root[first].ContentType # content_type]
        ELSE [root |-> Append(root, [tag |-> "Override", PartName |-> part_name,
                                     ContentType |-> content_type]),
              changed |-> TRUE]

(***************************************************************************)
(* Relationship sub-model: state machine                                   *)
(***************************************************************************)
InitRels ==
  /\ pc_rels = "start"
  /\ \/ /\ rels_op = "relationship"
        /\ \E root \in SeqsUpTo(RelElements, MaxRels) : rels_parts = <<root>>
     \/ /\ rels_op = "content_type"
        /\ \E root \in SeqsUpTo(ContentTypeElements, MaxRels) : rels_parts = <<root>>
  /\ rels_changed = <<>>

IdleRels ==
  /\ pc_rels = "idle"
  /\ rels_op = ""
  /\ rels_parts = <<>>
  /\ rels_changed = <<>>

\* One call of ensure_comments_extended_relationship (2481-2482).
EnsureRelationship(next_pc) ==
  /\ rels_op = "relationship"
  /\ LET out == ensure_word_relationship(rels_parts[Len(rels_parts)], CommentsExtRelType,
                                         "commentsExtended.xml")
     IN  /\ rels_parts' = Append(rels_parts, out.root)
         /\ rels_changed' = Append(rels_changed, out.changed)
  /\ pc_rels' = next_pc
  /\ UNCHANGED rels_op
  /\ UNCHANGED notRels

\* One call of ensure_comments_extended_content_type (2493-2494).
EnsureContentType(next_pc) ==
  /\ rels_op = "content_type"
  /\ LET out == ensure_word_content_type_override(rels_parts[Len(rels_parts)],
                                                  CommentsExtPartName, CommentsExtContentType)
     IN  /\ rels_parts' = Append(rels_parts, out.root)
         /\ rels_changed' = Append(rels_changed, out.changed)
  /\ pc_rels' = next_pc
  /\ UNCHANGED rels_op
  /\ UNCHANGED notRels

\* rewrite_comments_extended_state 2698: the relationship is ensured
EnsureRelationshipFirst == pc_rels = "start" /\ EnsureRelationship("once")

\* the same call in the next write of the package
EnsureRelationshipAgain == pc_rels = "once" /\ EnsureRelationship("twice")

\* rewrite_comments_extended_state 2704: the content type is ensured
EnsureContentTypeFirst == pc_rels = "start" /\ EnsureContentType("once")

\* the same call in the next write of the package
EnsureContentTypeAgain == pc_rels = "once" /\ EnsureContentType("twice")

NextRels ==
  \/ EnsureRelationshipFirst
  \/ EnsureRelationshipAgain
  \/ EnsureContentTypeFirst
  \/ EnsureContentTypeAgain

(***************************************************************************)
(* Anchor synthesis: collect_story_marker_counts (2724-2745),              *)
(* synthesize_child_markers_in_story (2748-2817) and                       *)
(* ensure_thread_reply_anchors (2820-2896) on the story parts of a package *)
(***************************************************************************)
MaxStoryLen == 4

\* An element of a story part: its local name, its w:id and its children.
Elem(tag, id, children) == [tag |-> tag, id |-> id, children |-> children]

RangeStart(id) == Elem("commentRangeStart", id, <<>>)

RangeEnd(id) == Elem("commentRangeEnd", id, <<>>)

\* A run that holds the reference of a comment.
RefRun(id) == Elem("r", "", <<Elem("commentReference", id, <<>>)>>)

TextRun == Elem("r", "", <<Elem("t", "", <<>>)>>)

MarkerTags == {"commentRangeStart", "commentRangeEnd", "commentReference"}

\* The elements of a tree in document order (root.iter()).
RECURSIVE IterElems(_)
RECURSIVE IterChildren(_, _)
IterElems(elem) == <<elem>> \o IterChildren(elem.children, 1)

IterChildren(children, k) ==
  IF k > Len(children) THEN <<>>
  ELSE IterElems(children[k]) \o IterChildren(children, k + 1)

RECURSIVE IterStories(_, _)
IterStories(stories, k) ==
  IF k > Len(stories) THEN <<>> ELSE IterElems(stories[k]) \o IterStories(stories, k + 1)

\* collect_story_marker_counts: counts[bucket][cid] over all story parts
collect_story_marker_counts(stories) ==
  LET elems == IterStories(stories, 1)
      count(tag, cid) ==
        Cardinality({i \in DOMAIN elems : elems[i].tag = tag /\ Strip(elems[i].id) = cid})
      ids == {Strip(elems[i].id) : i \in {j \in DOMAIN elems : elems[j].tag \in MarkerTags}}
               \ {""}
  IN  [start |-> [c \in ids |-> count("commentRangeStart", c)],
       end |-> [c \in ids |-> count("commentRangeEnd", c)],
       ref |-> [c \in ids |-> count("commentReference", c)]]

\* counts[bucket].get(cid, 0)
CountOf(counts, cid) == IF cid \in DOMAIN counts THEN counts[cid] ELSE 0

\* is_marker (2760-2763)
is_marker(elem, marker_name, cid) == elem.tag = marker_name /\ Strip(elem.id) = cid

\* container.insert(insert_at, marker), positions counted from 1
InsertAt(children, q, marker) ==
  [i \in 1..(Len(children) + 1) |->
     IF i < q THEN children[i] ELSE IF i = q THEN marker ELSE children[i - 1]]

\* Lines 2780-2781 and 2800-2801: the first position from q on that does not
\* hold an element of the tag.
RECURSIVE SkipForward(_, _, _)
SkipForward(children, q, tag) ==
  IF q <= Len(children) /\ children[q].tag = tag THEN SkipForward(children, q + 1, tag) ELSE q

\* The position behind the marker of the parent instead of before it.
AfterParentEnd(children, q, tag) == q + 1

\* Lines 2790-2791: back over the elements of the tag that stand before q.
RECURSIVE SkipBackward(_, _, _)
SkipBackward(children, q, tag) ==
  IF q > 1 /\ children[q - 1].tag = tag THEN SkipBackward(children, q - 1, tag) ELSE q

NoneInserted == [start |-> 0, end |-> 0, ref |-> 0]

\* Lines 2775-2808: the while loop over the children of one container.
RECURSIVE ScanContainer(_, _, _, _, _, _)
ScanContainer(children, idx, parent_id, child_id, need, inserted) ==
  IF idx > Len(children) THEN [children |-> children, inserted |-> inserted]
  ELSE
    LET elem == children[idx]
    IN  IF need.start /\ inserted.start = 0 /\ is_marker(elem, "commentRangeStart", parent_id)
          THEN LET q == SkipForward(children, idx + 1, "commentRangeStart")
               IN  ScanContainer(InsertAt(children, q, RangeStart(child_id)), q + 1,
                                 parent_id, child_id, need, [inserted EXCEPT !.start = 1])
        ELSE IF need.end /\ inserted.end = 0 /\ is_marker(elem, "commentRangeEnd", parent_id)
          THEN LET q == SkipBackward(children, idx, "commentRangeEnd")
               IN  ScanContainer(InsertAt(children, q, RangeEnd(child_id)), idx + 1,
                                 parent_id, child_id, need, [inserted EXCEPT !.end = 1])
        ELSE IF need.ref /\ inserted.ref = 0 /\ is_marker(elem, "commentReference", parent_id)
          THEN LET q == SkipForward(children, idx + 1, "commentReference")
               IN  ScanContainer(InsertAt(children, q, Elem("commentReference", child_id, <<>>)),
                                 q + 1, parent_id, child_id, need, [inserted EXCEPT !.ref = 1])
        ELSE ScanContainer(children, idx + 1, parent_id, child_id, need, inserted)

\* Lines 2770-2815: the containers of root.iter() in document order, each
\* scanned before its children are visited.  Once every needed marker is
\* inserted no guard of the scan holds any more, so the early return of
\* line 2815 leaves the same tree.
RECURSIVE SynthElem(_, _, _, _, _)
RECURSIVE SynthChildren(_, _, _, _, _, _)
SynthElem(elem, parent_id, child_id, need, inserted) ==
  LET scanned == ScanContainer(elem.children, 1, parent_id, child_id, need, inserted)
      below == SynthChildren(scanned.children, 1, parent_id, child_id, need, scanned.inserted)
  IN  [elem |-> [elem EXCEPT !.children = below.children], inserted |-> below.inserted]

SynthChildren(children, k, parent_id, child_id, need, inserted) ==
  IF k > Len(children) THEN [children |-> children, inserted |-> inserted]
  ELSE
    LET one == SynthElem(children[k], parent_id, child_id, need, inserted)
    IN  SynthChildren([children EXCEPT ![k] = one.elem], k + 1, parent_id, child_id, need,
                      one.inserted)

\* synthesize_child_markers_in_story: the story after the call and inserted
synthesize_child_markers_in_story(root, parent_id, child_id, need) ==
  SynthElem(root, parent_id, child_id, need, NoneInserted)

\* Lines 2854-2876: the loop over the story parts for one reply.
RECURSIVE SynthInStories(_, _, _, _, _, _)
SynthInStories(stories, k, parent_id, child_id, counts, changed_files) ==
  LET need == [start |-> CountOf(counts.start, child_id) < 1,
               end |-> CountOf(counts.end, child_id) < 1,
               ref |-> CountOf(counts.ref, child_id) < 1]
  IN  IF k > Len(stories) \/ ~(need.start \/ need.end \/ need.ref)
        THEN [stories |-> stories, counts |-> counts, changed_files |-> changed_files,
              need |-> need]
      ELSE
        LET out == synthesize_child_markers_in_story(stories[k], parent_id, child_id, need)
            ins == out.inserted
            added(bucket, n) == [c \in DOMAIN bucket \cup {child_id} |->
                                   CountOf(bucket, c) + (IF c = child_id THEN n ELSE 0)]
        IN  IF ins.start + ins.end + ins.ref > 0
              THEN SynthInStories([stories EXCEPT ![k] = out.elem], k + 1, parent_id, child_id,
                                  [start |-> added(counts.start, ins.start),
                                   end |-> added(counts.end, ins.end),
                                   ref |-> added(counts.ref, ins.ref)],
                                  changed_files + 1)
              ELSE SynthInStories(stories, k + 1, parent_id, child_id, counts, changed_files)

\* The loop that passes over a reply whose parent has incomplete anchors
\* without an issue.
RECURSIVE EnsureRepliesSkipIncomplete(_, _, _, _)
EnsureRepliesSkipIncomplete(order, k, parent_of, st) ==
  IF k > Len(order) THEN st
  ELSE
    LET child_id == order[k]
        parent_id == Strip(Get(parent_of, child_id))
        has_all(cid) == /\ CountOf(st.counts.start, cid) > 0
                        /\ CountOf(st.counts.end, cid) > 0
                        /\ CountOf(st.counts.ref, cid) > 0
        out == SynthInStories(st.stories, 1, parent_id, child_id, st.counts, st.changed_files)
    IN  IF parent_id = "" \/ has_all(child_id) \/ ~has_all(parent_id)
          THEN EnsureRepliesSkipIncomplete(order, k + 1, parent_of, st)
        ELSE EnsureRepliesSkipIncomplete(order, k + 1, parent_of,
               [stories |-> out.stories, counts |-> out.counts,
                changed_files |-> out.changed_files, unresolved |-> st.unresolved])

\* Lines 2829-2888: the loop over the comments in topological order.
RECURSIVE EnsureReplies(_, _, _, _)
EnsureReplies(order, k, parent_of, st) ==
  IF k > Len(order) THEN st
  ELSE
    LET child_id == order[k]
        parent_id == Strip(Get(parent_of, child_id))
        has_all(cid) == /\ CountOf(st.counts.start, cid) > 0
                        /\ CountOf(st.counts.end, cid) > 0
                        /\ CountOf(st.counts.ref, cid) > 0
        out == SynthInStories(st.stories, 1, parent_id, child_id, st.counts, st.changed_files)
    IN  IF parent_id = "" \/ has_all(child_id) THEN EnsureReplies(order, k + 1, parent_of, st)
        ELSE IF ~has_all(parent_id)
          THEN EnsureReplies(order, k + 1, parent_of,
                 [st EXCEPT !.unresolved =
                    Append(@, [reply |-> child_id, parent |-> parent_id,
                               issue |-> "parent has incomplete anchors"])])
        ELSE EnsureReplies(order, k + 1, parent_of,
               [stories |-> out.stories, counts |-> out.counts,
                changed_files |-> out.changed_files,
                unresolved |->
                  IF out.need.start \/ out.need.end \/ out.need.ref
                    THEN Append(st.unresolved, [reply |-> child_id, parent |-> parent_id,
                                                issue |-> "still missing"])
                    ELSE st.unresolved])

\* ensure_thread_reply_anchors on the story parts: the parts as they are
\* written, the issues of the ValueError (none: the call returns) and the
\* number of changed files.
ensure_reply_anchors_in_stories(stories, ordered_ids, parent_of) ==
  LET child_ids == SelectSeq(ordered_ids, LAMBDA c : Strip(Get(parent_of, c)) # "")
      start == [stories |-> stories, counts |-> collect_story_marker_counts(stories),
                changed_files |-> 0, unresolved |-> <<>>]
  IN  IF child_ids = <<>> THEN start
      ELSE EnsureReplies(topological_comment_order(ordered_ids, parent_of), 1, parent_of, start)

(***************************************************************************)
(* Synthesis sub-model: state machine                                      *)
(***************************************************************************)
\* What the paragraphs of a story hold: the markers of the root comment 1,
\* markers of its reply 2, and text.
StoryPieces ==
  {RangeStart("1"), RangeEnd("1"), RefRun("1"), RangeStart("2"), RangeEnd("2"), RefRun("2"),
   TextRun}

Paragraph(children) == Elem("p", "", children)

Story(paragraphs) == Elem("body", "", paragraphs)

\* The story parts of a package: the pieces in one paragraph, in two
\* paragraphs of one story, or in two stories (document.xml, footnotes.xml).
StoryLayouts(pieces) ==
  {<<Story(<<Paragraph(pieces)>>)>>}
    \cup {<<Story(<<Paragraph(SubSeq(pieces, 1, k)),
                   Paragraph(SubSeq(pieces, k + 1, Len(pieces)))>>)>> :
            k \in 1..(Len(pieces) - 1)}
    \cup {<<Story(<<Paragraph(SubSeq(pieces, 1, k))>>),
            Story(<<Paragraph(SubSeq(pieces, k + 1, Len(pieces)))>>)>> :
            k \in 1..(Len(pieces) - 1)}

\* ordered_ids and parent_by_id of comment_data: a reply, a reply of the
\* reply, two replies of the root.
SynthThreads ==
  {[ordered |-> <<"1", "2">>, parent |-> OneEntry("2", "1")],
   [ordered |-> <<"3", "2", "1">>, parent |-> [c \in {"2", "3"} |-> IF c = "2" THEN "1" ELSE "2"]],
   [ordered |-> <<"1", "2", "3">>, parent |-> [c \in {"2", "3"} |-> "1"]]}

NoSynthOut == [stories |-> <<>>, counts |-> [start |-> EmptyMap, end |-> EmptyMap, ref |-> EmptyMap],
               changed_files |-> 0, unresolved |-> <<>>]

InitSynth ==
  /\ pc_synth = "start"
  /\ \E pieces \in SeqsUpTo(StoryPieces, MaxStoryLen) : syn_stories \in StoryLayouts(pieces)
  /\ \E t \in SynthThreads :
       /\ syn_ordered = t.ordered
       /\ syn_parent = t.parent
  /\ syn_out = NoSynthOut

IdleSynth ==
  /\ pc_synth = "idle"
  /\ syn_stories = <<>>
  /\ syn_ordered = <<>>
  /\ syn_parent = EmptyMap
  /\ syn_out = NoSynthOut

\* convert_md_to_docx 3465-3469: ensure_thread_reply_anchors returns
AnchorsEnsured ==
  /\ pc_synth = "start"
  /\ LET out == ensure_reply_anchors_in_stories(syn_stories, syn_ordered, syn_parent)
     IN  /\ out.unresolved = <<>>
         /\ syn_out' = out
  /\ pc_synth' = "returned"
  /\ UNCHANGED <<syn_stories, syn_ordered, syn_parent>>
  /\ UNCHANGED notSynth

\* ensure_thread_reply_anchors raises ValueError (2890-2895); the story parts
\* changed before stay changed in the unpacked directory.
AnchorsUnresolved ==
  /\ pc_synth = "start"
  /\ LET out == ensure_reply_anchors_in_stories(syn_stories, syn_ordered, syn_parent)
     IN  /\ out.unresolved # <<>>
         /\ syn_out' = out
  /\ pc_synth' = "error"
  /\ UNCHANGED <<syn_stories, syn_ordered, syn_parent>>
  /\ UNCHANGED notSynth

NextSynth == AnchorsEnsured \/ AnchorsUnresolved

(***************************************************************************)
(* PackageCommentReader: comment_thread_para_id (3035-3041) and            *)
(* parse_docx_comments (3044-3143) on the comment parts of a package       *)
(***************************************************************************)
MaxPartEntries == 2

\* comment_paragraph_para_ids (3026-3032): the paraIds of the paragraphs
\* that have one
comment_paragraph_para_ids(comment) == SelectSeq(comment.paragraphs, LAMBDA p : p # "")

FirstParagraphId(comment) ==
  LET para_ids == comment_paragraph_para_ids(comment)
  IN  IF Len(para_ids) > 0 THEN para_ids[1] ELSE comment.paraId

comment_thread_para_id(comment) ==
  LET para_ids == comment_paragraph_para_ids(comment)
  IN  IF Len(para_ids) > 0 THEN para_ids[Len(para_ids)] ELSE comment.paraId

\* dict[key] = value
Put(map, key, value) == [k \in DOMAIN map \cup {key} |-> IF k = key THEN value ELSE map[k]]

RECURSIVE PutAll(_, _, _, _)
PutAll(map, keys, k, value) ==
  IF k > Len(keys) THEN map ELSE PutAll(Put(map, keys[k], value), keys, k + 1, value)

\* Lines 3055-3083: the loop over the comments of comments.xml.  No comment
\* element carries a parentId attribute.
RECURSIVE ReadComments(_, _, _)
ReadComments(comments_xml, k, acc) ==
  IF k > Len(comments_xml) THEN acc
  ELSE
    LET comment == comments_xml[k]
        cid == comment.id
        para_id == comment_thread_para_id(comment)
        with_paragraphs == PutAll(acc.para_to_id, comment_paragraph_para_ids(comment), 1, cid)
    IN  ReadComments(comments_xml, k + 1,
          [comments |-> Put(acc.comments, cid,
                            [para_id |-> para_id, durable_id |-> "", resolved |-> FALSE]),
           para_to_id |-> IF para_id # "" THEN Put(with_paragraphs, para_id, cid)
                          ELSE with_paragraphs,
           ordered_comment_ids |-> Append(acc.ordered_comment_ids, cid)])

\* Lines 3096-3099: durable_by_para of the ids part.
RECURSIVE DurableByPara(_, _, _)
DurableByPara(ids_part, k, map) ==
  IF k > Len(ids_part) THEN map
  ELSE DurableByPara(ids_part, k + 1,
         IF ids_part[k].paraId # "" /\ ids_part[k].durableId # ""
           THEN Put(map, ids_part[k].paraId, ids_part[k].durableId) ELSE map)

\* The reader that leaves the paragraph id of comments.xml alone.
AlignByOrderKeepOwn(ordered_comment_ids, para_ids_in_order, k, acc) == acc

\* Lines 3100-3105: the paragraph ids of the ids part given to the comments by
\* position.
RECURSIVE AlignByOrder(_, _, _, _)
AlignByOrder(ordered_comment_ids, para_ids_in_order, k, acc) ==
  IF k > Len(ordered_comment_ids) THEN acc
  ELSE
    LET comment_id == ordered_comment_ids[k]
        para_id == para_ids_in_order[k]
    IN  AlignByOrder(ordered_comment_ids, para_ids_in_order, k + 1,
          [acc EXCEPT
             !.para_to_id = IF para_id \notin DOMAIN @ THEN Put(@, para_id, comment_id) ELSE @,
             !.comments = [@ EXCEPT ![comment_id].para_id = para_id]])

\* Lines 3112-3129: the loop over the commentEx entries.
RECURSIVE ReadCommentsEx(_, _, _)
ReadCommentsEx(ext_part, k, acc) ==
  IF k > Len(ext_part) THEN acc
  ELSE
    LET elem == ext_part[k]
        child_id == Get(acc.para_to_id, elem.paraId)
        parent_id == Get(acc.para_to_id, elem.paraIdParent)
        seen == IF child_id # ""
                  THEN [acc EXCEPT
                          !.comments = [@ EXCEPT ![child_id].para_id = elem.paraId,
                                                 ![child_id].resolved = (Strip(elem.done) = "1")]]
                  ELSE acc
    IN  ReadCommentsEx(ext_part, k + 1,
          IF /\ elem.paraId # "" /\ elem.paraIdParent # ""
             /\ child_id # "" /\ parent_id # "" /\ child_id \notin DOMAIN acc.parent_map
            THEN [seen EXCEPT !.parent_map = Put(@, child_id, parent_id)]
            ELSE seen)

\* parse_docx_comments: comments and parent_map.  comments_xml is the list of
\* the comment elements, ids_part and ext_part are the commentId and the
\* commentEx elements (an absent part is an empty list).
parse_docx_comments(comments_xml, ids_part, ext_part) ==
  LET read == ReadComments(comments_xml, 1,
                [comments |-> EmptyMap, para_to_id |-> EmptyMap, ordered_comment_ids |-> <<>>])
      para_ids_in_order == SelectSeq([i \in DOMAIN ids_part |-> ids_part[i].paraId],
                                     LAMBDA p : p # "")
      durable_by_para == DurableByPara(ids_part, 1, EmptyMap)
      aligned == IF Len(para_ids_in_order) = Len(read.ordered_comment_ids)
                   THEN AlignByOrder(read.ordered_comment_ids, para_ids_in_order, 1, read)
                   ELSE read
      with_durable ==
        [c \in DOMAIN aligned.comments |->
           IF Strip(aligned.comments[c].para_id) \in DOMAIN durable_by_para
             THEN [aligned.comments[c] EXCEPT
                     !.durable_id = durable_by_para[Strip(aligned.comments[c].para_id)]]
             ELSE aligned.comments[c]]
      start == [comments |-> with_durable, para_to_id |-> aligned.para_to_id,
                parent_map |-> EmptyMap]
  IN  IF DOMAIN aligned.para_to_id = {} THEN start ELSE ReadCommentsEx(ext_part, 1, start)

(***************************************************************************)
(* Reader sub-model: state machine                                         *)
(***************************************************************************)
\* comments.xml: comment 1 with two paragraphs and comment 2 with one, each
\* paragraph with or without a paraId, in either order.
ReaderComments ==
  {IF first = "1" THEN <<c1, c2>> ELSE <<c2, c1>> :
     first \in {"1", "2"},
     c1 \in {[id |-> "1", paragraphs |-> ps, paraId |-> ""] :
               ps \in {<<"1A", "1B">>, <<"", "1B">>, <<"1A", "">>, <<"", "">>}},
     c2 \in {[id |-> "2", paragraphs |-> ps, paraId |-> ""] : ps \in {<<"2A">>, <<"">>}}}

ReaderParaIds == {"1A", "1B", "2A"}

\* The commentId elements of commentsIds.xml.
ReaderIdEntries == {[paraId |-> p, durableId |-> "D" \o p] : p \in ReaderParaIds}

\* The commentEx elements of commentsExtended.xml.
ReaderExEntries ==
  [paraId : ReaderParaIds, paraIdParent : {"", "1B", "2A"}, done : {"0", "1"}]

NoReaderOut == [comments |-> EmptyMap, para_to_id |-> EmptyMap, parent_map |-> EmptyMap]

InitReader ==
  /\ pc_reader = "start"
  /\ rd_comments \in ReaderComments
  /\ rd_ids \in SeqsUpTo(ReaderIdEntries, MaxPartEntries)
  /\ rd_ext \in SeqsUpTo(ReaderExEntries, MaxPartEntries)
  /\ rd_out = NoReaderOut

IdleReader ==
  /\ pc_reader = "idle"
  /\ rd_comments = <<>>
  /\ rd_ids = <<>>
  /\ rd_ext = <<>>
  /\ rd_out = NoReaderOut

\* convert_docx_to_md 3318: comments, parent_map, _ = parse_docx_comments(unpacked)
ReadPackage ==
  /\ pc_reader = "start"
  /\ rd_out' = parse_docx_comments(rd_comments, rd_ids, rd_ext)
  /\ pc_reader' = "read"
  /\ UNCHANGED <<rd_comments, rd_ids, rd_ext>>
  /\ UNCHANGED notReader

NextReader == ReadPackage

(***************************************************************************)
(* Token sub-model: the milestone token of one comment id, character by    *)
(* character: milestone_marker_inline (345-352), MILESTONE_TOKEN_RE        *)
(* (58-63) and milestone_match_id_edge (364-376)                           *)
(***************************************************************************)
MaxIdLen == 3

\* The characters of the ids of the model: a digit, the letter C, another
\* letter and the underscore.
IdChars == {"1", "C", "a", "_"}

\* [A-Za-z0-9] and [A-Za-z0-9_-] of the id patterns (49-63).
IsAlnum(ch) == ch \in {"1", "C", "a"}

IsIdChar(ch) == ch \in IdChars

\* An id is a sequence of characters matching [A-Za-z0-9][A-Za-z0-9_-]*.
TokenIdsOfLen(n) == {s \in [1..n -> IdChars] : IsAlnum(s[1])}

TokenIds == UNION {TokenIdsOfLen(n) : n \in 1..MaxIdLen}

\* str.isdigit() on a sequence of characters.
str_isdigit(chars) == chars # <<>> /\ \A i \in DOMAIN chars : isdigit(chars[i])

\* marker_id of milestone_marker_inline (351)
marker_id(cid) == IF str_isdigit(cid) THEN <<"C">> \o cid ELSE cid

\* milestone_marker_inline (345-352): the text c of the Str.
milestone_marker_text(cid, edge) ==
  LET edge_token == IF normalize_milestone_edge(edge) \in {"s", "e"}
                      THEN normalize_milestone_edge(edge) ELSE "s"
      edge_label == IF edge_token = "s" THEN "START" ELSE "END"
  IN  <<"==", "///">> \o marker_id(cid) \o <<".", edge_label, "///", "==">>

\* [A-Za-z0-9_-]* from offset j: the offset after the last character of the run.
RECURSIVE IdRunEnd(_, _)
IdRunEnd(text, j) == IF IsIdChar(At(text, j)) THEN IdRunEnd(text, j + 1) ELSE j

\* \s*\.\s*<edge>\s*/{3} from offset k (59-60).
EdgeTail(text, k) ==
  LET dot == SkipBlanks(text, k)
      e == SkipBlanks(text, dot + 1)
      close == SkipBlanks(text, e + 1)
  IN  IF /\ At(text, dot) = "."
         /\ normalize_milestone_edge(At(text, e)) # ""
         /\ At(text, close) = "///"
        THEN [ok |-> TRUE, edge |-> At(text, e), end |-> close + 1]
        ELSE [ok |-> FALSE, edge |-> "", end |-> 0]

NoGroups == [ok |-> FALSE, id3c |-> <<>>, edge3c |-> "", id3 |-> <<>>, edge3 |-> "", end |-> 0]

\* The two alternatives of MILESTONE_TOKEN_RE (59-60) tried at offset j:
\* /{3}\s*C(?P<id3c>[0-9]...) first, /{3}\s*(?P<id3>[A-Za-z0-9]...) second.
TokenCoreGroups(text, j) ==
  LET a == SkipBlanks(text, j + 1)
      tail3c == EdgeTail(text, IdRunEnd(text, a + 1))
      tail3 == EdgeTail(text, IdRunEnd(text, a))
  IN  IF At(text, j) # "///" THEN NoGroups
      ELSE IF At(text, a) = "C" /\ isdigit(At(text, a + 1)) /\ tail3c.ok
        THEN [NoGroups EXCEPT !.ok = TRUE,
                !.id3c = SubSeq(text, a + 1, IdRunEnd(text, a + 1) - 1),
                !.edge3c = tail3c.edge, !.end = tail3c.end]
      ELSE IF IsAlnum(At(text, a)) /\ tail3.ok
        THEN [NoGroups EXCEPT !.ok = TRUE,
                !.id3 = SubSeq(text, a, IdRunEnd(text, a) - 1),
                !.edge3 = tail3.edge, !.end = tail3.end]
      ELSE NoGroups

\* MILESTONE_TOKEN_RE (58-63) tried at offset i: after a leading "==" the
\* closing "==" is required (62).
TokenGroups(text, i) ==
  LET core == TokenCoreGroups(text, SkipBlanks(text, i + 1))
      k == SkipBlanks(text, core.end)
  IN  IF At(text, i) = "==" /\ core.ok /\ At(text, k) = "=="
        THEN [core EXCEPT !.end = k + 1]
        ELSE TokenCoreGroups(text, i)

\* MILESTONE_TOKEN_RE.search(text): the leftmost match.
RECURSIVE TokenSearch(_, _)
TokenSearch(text, i) ==
  IF i > Len(text) THEN NoGroups
  ELSE IF TokenGroups(text, i).ok THEN TokenGroups(text, i)
  ELSE TokenSearch(text, i + 1)

\* milestone_match_id_edge (364-376): id3c or id3, edge3c or edge3.
milestone_match_id_edge(match) ==
  [id |-> IF match.id3c # <<>> THEN match.id3c ELSE match.id3,
   edge |-> normalize_milestone_edge(IF match.edge3c # "" THEN match.edge3c
                                     ELSE match.edge3)]

NoDecoded == [ok |-> FALSE, id |-> <<>>, edge |-> ""]

\* The marker text decoded: no match gives no id.
DecodeMarker(text) ==
  LET match == TokenSearch(text, 1)
  IN  IF match.ok
        THEN [ok |-> TRUE, id |-> milestone_match_id_edge(match).id,
              edge |-> milestone_match_id_edge(match).edge]
        ELSE NoDecoded

InitToken ==
  /\ pc_token = "start"
  /\ tok_id \in TokenIds
  /\ tok_other \in TokenIds
  /\ tok_edge \in {"s", "e"}
  /\ tok_text = <<>>
  /\ tok_other_text = <<>>
  /\ tok_decoded = NoDecoded
  /\ tok_other_decoded = NoDecoded

IdleToken ==
  /\ pc_token = "idle"
  /\ tok_id = <<>>
  /\ tok_other = <<>>
  /\ tok_edge = ""
  /\ tok_text = <<>>
  /\ tok_other_text = <<>>
  /\ tok_decoded = NoDecoded
  /\ tok_other_decoded = NoDecoded

\* Package to text: the tokens of the two ids are written.
EncodeToken ==
  /\ pc_token = "start"
  /\ tok_text' = milestone_marker_text(tok_id, tok_edge)
  /\ tok_other_text' = milestone_marker_text(tok_other, tok_edge)
  /\ pc_token' = "encoded"
  /\ UNCHANGED <<tok_id, tok_other, tok_edge, tok_decoded, tok_other_decoded>>
  /\ UNCHANGED notToken

\* Text to package: the tokens are matched and read.
DecodeToken ==
  /\ pc_token = "encoded"
  /\ tok_decoded' = DecodeMarker(tok_text)
  /\ tok_other_decoded' = DecodeMarker(tok_other_text)
  /\ pc_token' = "decoded"
  /\ UNCHANGED <<tok_id, tok_other, tok_edge, tok_text, tok_other_text>>
  /\ UNCHANGED notToken

NextToken == EncodeToken \/ DecodeToken

(***************************************************************************)
(* Topo sub-model: topological_comment_order (2321-2343) step by step, on  *)
(* any list of ids and any parent map                                      *)
(***************************************************************************)
MaxTopoLen == 3

\* The entries of ordered_ids: the empty id and three ids.
TopoIds == {"", "1", "2", "3"}

\* The values of parent_by_id: no parent, an id of the pool, an id outside it.
TopoParents == {"", "1", "2", "3", UnknownId}

TopoLists(n) == UNION {[1..k -> TopoIds] : k \in 0..n}

NoTopoLoop == [emitted |-> <<>>, pending_set |-> {}]

InitTopo ==
  /\ pc_topo = "start"
  /\ topo_ordered \in TopoLists(MaxTopoLen)
  /\ topo_parent \in [TopoIds \ {""} -> TopoParents]
  /\ topo_pending = <<>>
  /\ topo_loop = NoTopoLoop
  /\ topo_result = <<>>

IdleTopo ==
  /\ pc_topo = "idle"
  /\ topo_ordered = <<>>
  /\ topo_parent = EmptyMap
  /\ topo_pending = <<>>
  /\ topo_loop = NoTopoLoop
  /\ topo_result = <<>>

\* Lines 2322-2324: pending, pending_set and emitted.
TopoBegin ==
  /\ pc_topo = "start"
  /\ topo_pending' = SelectSeq(topo_ordered, LAMBDA c : c # "")
  /\ topo_loop' = [emitted |-> <<>>,
                   pending_set |-> Range(SelectSeq(topo_ordered, LAMBDA c : c # ""))]
  /\ pc_topo' = "loop"
  /\ UNCHANGED <<topo_ordered, topo_parent, topo_result>>
  /\ UNCHANGED notTopo

\* Lines 2325-2337: an iteration of the while loop whose pass emitted an id.
TopoProgress ==
  /\ pc_topo = "loop"
  /\ topo_loop.pending_set # {}
  /\ TopoPass(topo_pending, topo_parent, 1, topo_loop).pending_set # topo_loop.pending_set
  /\ topo_loop' = TopoPass(topo_pending, topo_parent, 1, topo_loop)
  /\ UNCHANGED <<pc_topo, topo_ordered, topo_parent, topo_pending, topo_result>>
  /\ UNCHANGED notTopo

\* Lines 2325-2342: an iteration whose pass emitted nothing, so that the
\* fallback emits what is pending.
TopoNoProgress ==
  /\ pc_topo = "loop"
  /\ topo_loop.pending_set # {}
  /\ TopoPass(topo_pending, topo_parent, 1, topo_loop).pending_set = topo_loop.pending_set
  /\ topo_loop' = TopoFallback(topo_pending, 1, topo_loop)
  /\ UNCHANGED <<pc_topo, topo_ordered, topo_parent, topo_pending, topo_result>>
  /\ UNCHANGED notTopo

\* Lines 2325 and 2343: pending_set is empty, emitted is returned.
TopoReturn ==
  /\ pc_topo = "loop"
  /\ topo_loop.pending_set = {}
  /\ topo_result' = topo_loop.emitted
  /\ pc_topo' = "done"
  /\ UNCHANGED <<topo_ordered, topo_parent, topo_pending, topo_loop>>
  /\ UNCHANGED notTopo

NextTopo == TopoBegin \/ TopoProgress \/ TopoNoProgress \/ TopoReturn

(***************************************************************************)
(* Flat sub-model: normalize_nested_comment_end_markers (1715-1730) with   *)
(* NESTED_COMMENT_END_WRAPPER_RE (45-48), one pass of the loop per step    *)
(***************************************************************************)
MaxInner == 2

\* The ids of the comment-end markers of the text.
FlatIds == {"0", "1"}

\* The text is a sequence of lexemes: "[", "]", the attribute block
\* {.comment-end id="<id>"}, a blank and a word.
EndAttrs(id) == "{.comment-end id=" \o id \o "}"

IsEndAttrs(lexeme) == lexeme \in {EndAttrs(id) : id \in FlatIds}

\* []{.comment-end id="<id>"}
EndMarker(id) == <<"[", "]", EndAttrs(id)>>

\* [<inner>]{.comment-end id="<id>"}
EndWrapper(inner, id) == <<"[">> \o inner \o <<"]", EndAttrs(id)>>

RECURSIVE Flatten(_)
Flatten(seqs) == IF seqs = <<>> THEN <<>> ELSE Head(seqs) \o Flatten(Tail(seqs))

\* What a span can hold: a word, a blank, a marker.
PlainPieces == {<<"x">>, <<" ">>} \cup {EndMarker(id) : id \in FlatIds}

Contents(pieces, n) == {Flatten(s) : s \in UNION {[1..k -> pieces] : k \in 1..n}}

\* Wrappers around plain pieces, and wrappers around those and plain pieces.
InnerWrappers(n) == {EndWrapper(inner, id) : inner \in Contents(PlainPieces, n), id \in FlatIds}

OuterWrappers(n) ==
  {EndWrapper(inner, id) :
     inner \in Contents(PlainPieces \cup InnerWrappers(n), n), id \in FlatIds}

\* The texts of the model: a wrapper, with or without a word before it and a
\* marker or a blank after it.
FlatTexts(n) ==
  {before \o wrapper \o after :
     before \in {<<>>, <<"x">>},
     wrapper \in OuterWrappers(n),
     after \in {<<>>, <<" ">>, EndMarker("0")}}

\* []{.comment-end[^}]*} at offset j (46).
EndMarkerAt(text, j) ==
  At(text, j) = "[" /\ At(text, j + 1) = "]" /\ IsEndAttrs(At(text, j + 2))

\* (?:\s*\[\]\{\.comment-end[^}]*\}\s*)+ taken once only.
InnerOneMarker(text, j) ==
  IF EndMarkerAt(text, SkipBlanks(text, j))
    THEN SkipBlanks(text, SkipBlanks(text, j) + 3)
    ELSE j

\* (?:\s*\[\]\{\.comment-end[^}]*\}\s*)+ from offset j (46): the offset after
\* the last repetition, j when there is none.
RECURSIVE InnerRunEnd(_, _)
InnerRunEnd(text, j) ==
  IF EndMarkerAt(text, SkipBlanks(text, j))
    THEN LET after == SkipBlanks(text, SkipBlanks(text, j) + 3)
         IN  IF EndMarkerAt(text, SkipBlanks(text, after))
               THEN InnerRunEnd(text, after) ELSE after
    ELSE j

NoWrapper == [ok |-> FALSE, inner |-> <<>>, attrs |-> "", end |-> 0]

\* NESTED_COMMENT_END_WRAPPER_RE (45-48) tried at offset i.
WrapperMatch(text, i) ==
  LET e == InnerRunEnd(text, i + 1)
  IN  IF /\ At(text, i) = "["
         /\ e > i + 1
         /\ At(text, e) = "]"
         /\ IsEndAttrs(At(text, e + 1))
        THEN [ok |-> TRUE, inner |-> SubSeq(text, i + 1, e - 1),
              attrs |-> At(text, e + 1), end |-> e + 2]
        ELSE NoWrapper

\* NESTED_COMMENT_END_WRAPPER_RE.subn(...) (1723-1726), the text: every match,
\* from the left and not overlapping, becomes its inner markers and an empty
\* marker with the attributes of the wrapper.
RECURSIVE SubnText(_, _)
SubnText(text, i) ==
  IF i > Len(text) THEN <<>>
  ELSE IF WrapperMatch(text, i).ok
    THEN WrapperMatch(text, i).inner \o <<"[", "]", WrapperMatch(text, i).attrs>>
           \o SubnText(text, WrapperMatch(text, i).end)
    ELSE <<text[i]>> \o SubnText(text, i + 1)

\* NESTED_COMMENT_END_WRAPPER_RE.subn(...), the number of matches replaced.
RECURSIVE SubnCount(_, _)
SubnCount(text, i) ==
  IF i > Len(text) THEN 0
  ELSE IF WrapperMatch(text, i).ok
    THEN 1 + SubnCount(text, WrapperMatch(text, i).end)
    ELSE SubnCount(text, i + 1)

Subn(text) == [text |-> SubnText(text, 1), count |-> SubnCount(text, 1)]

InitFlat ==
  /\ pc_flat = "loop"
  /\ flat_input \in FlatTexts(MaxInner)
  /\ flat_updated = flat_input
  /\ flat_changed = 0

IdleFlat ==
  /\ pc_flat = "idle"
  /\ flat_input = <<>>
  /\ flat_updated = <<>>
  /\ flat_changed = 0

\* Lines 1722-1729: a pass of the loop that replaced at least one wrapper.
FlattenPass ==
  /\ pc_flat = "loop"
  /\ Subn(flat_updated).count # 0
  /\ flat_updated' = Subn(flat_updated).text
  /\ flat_changed' = flat_changed + Subn(flat_updated).count
  /\ UNCHANGED <<pc_flat, flat_input>>
  /\ UNCHANGED notFlat

\* Lines 1727-1730: a pass without a match ends the loop.
FlattenReturn ==
  /\ pc_flat = "loop"
  /\ Subn(flat_updated).count = 0
  /\ pc_flat' = "done"
  /\ UNCHANGED <<flat_input, flat_updated, flat_changed>>
  /\ UNCHANGED notFlat

NextFlat == FlattenPass \/ FlattenReturn

(***************************************************************************)
(* Specifications                                                          *)
(***************************************************************************)
InitSpecThread == InitThread /\ IdleMarker /\ IdleAnnot /\ IdleAnchor /\ IdleCard /\ IdleConv /\ IdlePlace /\ IdleNest /\ IdleState /\ IdleRepair /\ IdleWrite /\ IdleRels /\ IdleSynth /\ IdleReader /\ IdleToken /\ IdleTopo /\ IdleFlat

SpecThread == InitSpecThread /\ [][NextThread]_vars

InitSpecMarker == InitMarker /\ IdleThread /\ IdleAnnot /\ IdleAnchor /\ IdleCard /\ IdleConv /\ IdlePlace /\ IdleNest /\ IdleState /\ IdleRepair /\ IdleWrite /\ IdleRels /\ IdleSynth /\ IdleReader /\ IdleToken /\ IdleTopo /\ IdleFlat

SpecMarker == InitSpecMarker /\ [][NextMarker]_vars

InitSpecAnnot == InitAnnot /\ IdleThread /\ IdleMarker /\ IdleAnchor /\ IdleCard /\ IdleConv /\ IdlePlace /\ IdleNest /\ IdleState /\ IdleRepair /\ IdleWrite /\ IdleRels /\ IdleSynth /\ IdleReader /\ IdleToken /\ IdleTopo /\ IdleFlat

SpecAnnot == InitSpecAnnot /\ [][NextAnnot]_vars

InitSpecAnchor == InitAnchor /\ IdleThread /\ IdleMarker /\ IdleAnnot /\ IdleCard /\ IdleConv /\ IdlePlace /\ IdleNest /\ IdleState /\ IdleRepair /\ IdleWrite /\ IdleRels /\ IdleSynth /\ IdleReader /\ IdleToken /\ IdleTopo /\ IdleFlat

SpecAnchor == InitSpecAnchor /\ [][NextAnchor]_vars

InitSpecCard == InitCard /\ IdleThread /\ IdleMarker /\ IdleAnnot /\ IdleAnchor /\ IdleConv /\ IdlePlace /\ IdleNest /\ IdleState /\ IdleRepair /\ IdleWrite /\ IdleRels /\ IdleSynth /\ IdleReader /\ IdleToken /\ IdleTopo /\ IdleFlat

SpecCard == InitSpecCard /\ [][NextCard]_vars

InitSpecConv == InitConv /\ IdleThread /\ IdleMarker /\ IdleAnnot /\ IdleAnchor /\ IdleCard /\ IdlePlace /\ IdleNest /\ IdleState /\ IdleRepair /\ IdleWrite /\ IdleRels /\ IdleSynth /\ IdleReader /\ IdleToken /\ IdleTopo /\ IdleFlat

SpecConv == InitSpecConv /\ [][NextConv]_vars

InitSpecPlace == InitPlace /\ IdleThread /\ IdleMarker /\ IdleAnnot /\ IdleAnchor /\ IdleCard /\ IdleConv /\ IdleNest /\ IdleState /\ IdleRepair /\ IdleWrite /\ IdleRels /\ IdleSynth /\ IdleReader /\ IdleToken /\ IdleTopo /\ IdleFlat

SpecPlace == InitSpecPlace /\ [][NextPlace]_vars

InitSpecNest == InitNest /\ IdleThread /\ IdleMarker /\ IdleAnnot /\ IdleAnchor /\ IdleCard /\ IdleConv /\ IdlePlace /\ IdleState /\ IdleRepair /\ IdleWrite /\ IdleRels /\ IdleSynth /\ IdleReader /\ IdleToken /\ IdleTopo /\ IdleFlat

SpecNest == InitSpecNest /\ [][NextNest]_vars

InitSpecState == InitState /\ IdleThread /\ IdleMarker /\ IdleAnnot /\ IdleAnchor /\ IdleCard /\ IdleConv /\ IdlePlace /\ IdleNest /\ IdleRepair /\ IdleWrite /\ IdleRels /\ IdleSynth /\ IdleReader /\ IdleToken /\ IdleTopo /\ IdleFlat

SpecState == InitSpecState /\ [][NextState]_vars

InitSpecRepair == InitRepair /\ IdleThread /\ IdleMarker /\ IdleAnnot /\ IdleAnchor /\ IdleCard /\ IdleConv /\ IdlePlace /\ IdleNest /\ IdleState /\ IdleWrite /\ IdleRels /\ IdleSynth /\ IdleReader /\ IdleToken /\ IdleTopo /\ IdleFlat

SpecRepair == InitSpecRepair /\ [][NextRepair]_vars

InitSpecWrite == InitWrite /\ IdleThread /\ IdleMarker /\ IdleAnnot /\ IdleAnchor /\ IdleCard /\ IdleConv /\ IdlePlace /\ IdleNest /\ IdleState /\ IdleRepair /\ IdleRels /\ IdleSynth /\ IdleReader /\ IdleToken /\ IdleTopo /\ IdleFlat

SpecWrite == InitSpecWrite /\ [][NextWrite]_vars

InitSpecRels == InitRels /\ IdleThread /\ IdleMarker /\ IdleAnnot /\ IdleAnchor /\ IdleCard /\ IdleConv /\ IdlePlace /\ IdleNest /\ IdleState /\ IdleRepair /\ IdleWrite /\ IdleSynth /\ IdleReader /\ IdleToken /\ IdleTopo /\ IdleFlat

SpecRels == InitSpecRels /\ [][NextRels]_vars

InitSpecSynth == InitSynth /\ IdleThread /\ IdleMarker /\ IdleAnnot /\ IdleAnchor /\ IdleCard /\ IdleConv /\ IdlePlace /\ IdleNest /\ IdleState /\ IdleRepair /\ IdleWrite /\ IdleRels /\ IdleReader /\ IdleToken /\ IdleTopo /\ IdleFlat

SpecSynth == InitSpecSynth /\ [][NextSynth]_vars

InitSpecReader == InitReader /\ IdleThread /\ IdleMarker /\ IdleAnnot /\ IdleAnchor /\ IdleCard /\ IdleConv /\ IdlePlace /\ IdleNest /\ IdleState /\ IdleRepair /\ IdleWrite /\ IdleRels /\ IdleSynth /\ IdleToken /\ IdleTopo /\ IdleFlat

SpecReader == InitSpecReader /\ [][NextReader]_vars

InitSpecToken == InitToken /\ IdleThread /\ IdleMarker /\ IdleAnnot /\ IdleAnchor /\ IdleCard /\ IdleConv /\ IdlePlace /\ IdleNest /\ IdleState /\ IdleRepair /\ IdleWrite /\ IdleRels /\ IdleSynth /\ IdleReader /\ IdleTopo /\ IdleFlat

SpecToken == InitSpecToken /\ [][NextToken]_vars

InitSpecTopo == InitTopo /\ IdleThread /\ IdleMarker /\ IdleAnnot /\ IdleAnchor /\ IdleCard /\ IdleConv /\ IdlePlace /\ IdleNest /\ IdleState /\ IdleRepair /\ IdleWrite /\ IdleRels /\ IdleSynth /\ IdleReader /\ IdleToken /\ IdleFlat

SpecTopo == InitSpecTopo /\ [][NextTopo]_vars

\* The interpreter runs the loop on: a step that can be taken is taken.
SpecTopoFair == SpecTopo /\ WF_vars(NextTopo)

InitSpecFlat == InitFlat /\ IdleThread /\ IdleMarker /\ IdleAnnot /\ IdleAnchor /\ IdleCard /\ IdleConv /\ IdlePlace /\ IdleNest /\ IdleState /\ IdleRepair /\ IdleWrite /\ IdleRels /\ IdleSynth /\ IdleReader /\ IdleToken /\ IdleTopo

SpecFlat == InitSpecFlat /\ [][NextFlat]_vars

(***************************************************************************)
(* Claims                                                                  *)
(***************************************************************************)
ThreadDecided == pc_thread \in {"validated", "error", "ordered"}

MutualParents(a, b) ==
  /\ a # b
  /\ {a, b} \subseteq Range(ordered_started_ids)
  /\ Get(parent_by_id, a) = b
  /\ Get(parent_by_id, b) = a

ThreeLevelChain(a, b, c) ==
  /\ Cardinality({a, b, c}) = 3
  /\ Range(ordered_started_ids) = {a, b, c}
  /\ Get(parent_by_id, a) = ""
  /\ Get(parent_by_id, b) = a
  /\ Get(parent_by_id, c) = b

\* C4: a mutual-parent pair (A.parent=B, B.parent=A) is rejected with a cycle
\* issue whose chain names both ids; a three-level chain (C.parent=B,
\* B.parent=A) is accepted and, whatever the input order, emitted as A, B, C.
C4_CycleRejection ==
  ThreadDecided =>
    /\ \A a, b \in ThreadIds :
         MutualParents(a, b) =>
           /\ pc_thread = "error"
           /\ \E i \in DOMAIN thread_result.cycles :
                {a, b} \subseteq Range(thread_result.cycles[i])
    /\ \A a, b, c \in ThreadIds :
         ThreeLevelChain(a, b, c) =>
           /\ pc_thread # "error"
           /\ thread_result.ok
           /\ pc_thread = "ordered" => emitted = <<a, b, c>>

\* C4 witness: the chain given in the reversed order C, B, A has been ordered.
C4_Witness_ChainReordered ==
  /\ pc_thread = "ordered"
  /\ ordered_started_ids = <<"3", "2", "1">>
  /\ ThreeLevelChain("1", "2", "3")

MarkerDecided == pc_marker \in {"passed", "failed"}

TokenOffsets(id, edge) ==
  {i \in DOMAIN source_text : source_text[i] = Lexeme("tok", id, edge)}

TokenCount(id, edge) == Cardinality(TokenOffsets(id, edge))

SourceLineOf(i) == 1 + Cardinality({j \in 1..(i - 1) : source_text[j].t = "nl"})

HasIssue(kind, id) ==
  \E k \in DOMAIN marker_issues :
    marker_issues[k].kind = kind /\ marker_issues[k].id = id

BalancedNonDuplicated ==
  \A id \in Range(MarkerIds) :
    /\ TokenCount(id, "s") = TokenCount(id, "e")
    /\ TokenCount(id, "s") <= 1

RootCardsAnchored == \A id \in root_cards : TokenCount(id, "s") = 1

StartsPrecedeEnds ==
  \A id \in Range(MarkerIds) :
    \A i \in TokenOffsets(id, "s"), j \in TokenOffsets(id, "e") : i < j

WrappersTwoSided ==
  \A i \in DOMAIN source_text :
    source_text[i].t = "tok" =>
      ((i > 1 /\ source_text[i - 1].t = "eq")
         <=> (i < Len(source_text) /\ source_text[i + 1].t = "eq"))

\* C6 as stated: every document whose tokens are balanced and non-duplicated
\* for all ids passes the validator.
C6_BalancedPasses ==
  (MarkerDecided /\ BalancedNonDuplicated) => pc_marker = "passed"

\* C6 amended: a document whose tokens are balanced and non-duplicated for all
\* ids passes the validator when, in addition, every root card's id has its
\* token pair, every start precedes its end, and no token has a highlight
\* delimiter on one side only.
C6_BalancedWellFormedPasses ==
  (/\ MarkerDecided
   /\ BalancedNonDuplicated
   /\ RootCardsAnchored
   /\ StartsPrecedeEnds
   /\ WrappersTwoSided) => (pc_marker = "passed" /\ marker_issues = <<>>)

\* C6 witness: a root card with its token pair around a word has passed.
C6_Witness_AnchoredRootPasses ==
  /\ pc_marker = "passed"
  /\ "1" \in root_cards
  /\ TokenCount("1", "s") = 1
  /\ TokenCount("1", "e") = 1
  /\ \E i \in DOMAIN source_text : source_text[i].t = "word"

\* Every item of the attribute table kvs0 that has a non-empty value is still
\* in kvs1, at its place or one place further (an "id" item may have been put
\* in front).
KeepsNonEmptyItems(kvs0, kvs1) ==
  \E d \in {0, 1} :
    /\ Len(kvs1) >= Len(kvs0) + d
    /\ \A i \in DOMAIN kvs0 : kvs0[i][2] # "" => kvs1[i + d] = kvs0[i]

\* C7: the second run of the annotator over the annotated AST changes no span
\* and returns a changed count of zero, and no run overwrites an attribute the
\* span carried with a non-empty value.
C7_AnnotationIdempotent ==
  /\ pc_annot = "twice" =>
       /\ span_attrs[3] = span_attrs[2]
       /\ changed_counts[2] = 0
  /\ \A n \in DOMAIN span_attrs :
       KeepsNonEmptyItems(span_attrs[1].kvs, span_attrs[n].kvs)

\* C7 witness: the first run changed a comment-start span that already carried
\* a non-empty attribute, and the second run has been made.
C7_Witness_SecondRunAfterChange ==
  /\ pc_annot = "twice"
  /\ changed_counts[1] = 1
  /\ span_attrs[2] # span_attrs[1]
  /\ "comment-start" \in span_attrs[1].classes
  /\ \E i \in DOMAIN span_attrs[1].kvs :
       span_attrs[1].kvs[i][1] = "state" /\ span_attrs[1].kvs[i][2] # ""

\* The prose of a sequence of inlines: the text of its Str nodes, blanks left out.
RECURSIVE ProseOf(_)
ProseOf(inlines) ==
  IF inlines = <<>> THEN <<>>
  ELSE (IF Head(inlines).t = "Str" THEN Head(inlines).c ELSE <<>>) \o ProseOf(Tail(inlines))

SpanOffsets(inlines, t, id) ==
  {i \in DOMAIN inlines : inlines[i].t = t /\ inlines[i].id = id}

MinOf(S) == CHOOSE x \in S : \A y \in S : x <= y

MaxOf(S) == CHOOSE x \in S : \A y \in S : x >= y

HasAnchor(inlines, id) ==
  /\ SpanOffsets(inlines, "SpanStart", id) # {}
  /\ SpanOffsets(inlines, "SpanEnd", id) # {}

\* The prose between the first start marker and the last end marker of id.
AnchorOf(inlines, id) ==
  ProseOf(SubSeq(inlines, MinOf(SpanOffsets(inlines, "SpanStart", id)) + 1,
                          MaxOf(SpanOffsets(inlines, "SpanEnd", id)) - 1))

\* C9: after spans were encoded into milestone tokens and the text was decoded
\* again, the prose is the same sequence of words, and every root comment has
\* its markers around the same prose as before, reply spans inside the range
\* or not.
C9_AnchorPreserved ==
  pc_anchor = "decoded" =>
    /\ ProseOf(decoded_inlines) = ProseOf(ast_inlines)
    /\ \A id \in AnchorIds \ anchor_child_ids :
         HasAnchor(ast_inlines, id) =>
           /\ HasAnchor(decoded_inlines, id)
           /\ AnchorOf(decoded_inlines, id) = AnchorOf(ast_inlines, id)

\* C9 witness: root 1 is anchored on a word, the start span of reply 2 lies
\* inside the range, and the text has been decoded.
C9_Witness_ReplyInsideRange ==
  /\ pc_anchor = "decoded"
  /\ anchor_child_ids = {"2"}
  /\ ast_inlines = <<SpanStart("1"), SpanStart("2"), Str(<<"w">>), SpanEnd("1")>>
  /\ AnchorOf(decoded_inlines, "1") = <<"w">>

(***************************************************************************)
(* C1: round-trip identity of the comment graph                            *)
(***************************************************************************)
\* The fields of comment cid read back from the text are those of the package.
SameComment(cid) ==
  /\ cid \in Range(comment_data.ordered_ids)
  /\ comment_data.author_by_id[cid] = Strip(comments[cid].author)
  /\ comment_data.date_by_id[cid] = Strip(comments[cid].date)
  /\ comment_data.text_by_id[cid] = normalize_markdown_comment_text(comments[cid].text)
  /\ Get(comment_data.parent_by_id, cid) = Get(parent_map, cid)
  /\ comment_data.state_by_id[cid] = (IF comments[cid].resolved THEN "resolved" ELSE "active")

\* C1: once the comments of a package were written as milestone tokens and
\* cards and the text was read back, every comment id of the package is in
\* the graph read back, with the same author, date, normalized body text,
\* parent id and resolved/active state; a thread error never ends the run.
C1_RoundTripIdentity ==
  /\ pc_card # "error"
  /\ pc_card = "decoded" => \A cid \in DOMAIN comments : SameComment(cid)

(***************************************************************************)
(* C8: scenario, one root comment 1 by A, active                           *)
(***************************************************************************)
RECURSIVE ContainsSeq(_, _)
ContainsSeq(text, pattern) ==
  /\ Len(text) >= Len(pattern)
  /\ \/ SubSeq(text, 1, Len(pattern)) = pattern
     \/ ContainsSeq(Tail(text), pattern)

OneRootCommentByA ==
  /\ DOMAIN comments = {"1"}
  /\ DOMAIN parent_map = {}
  /\ comments["1"].author = "A"
  /\ ~comments["1"].resolved

HeaderOfScenario == <<"[!", "COMMENT", "1", ":", "A", "(", "active", ")]">>

OneCardWithScenarioHeader ==
  /\ Len(md_doc.cards) = 1
  /\ md_doc.cards[1].header = HeaderOfScenario

\* C8 as stated: the text of the scenario holds the tokens ///1.START/// and
\* ///1.END/// and one card with the header [!COMMENT 1: A (active)].
C8_ScenarioBareTokens ==
  (pc_card \in {"encoded", "decoded"} /\ OneRootCommentByA) =>
    /\ ContainsSeq(md_doc.prose, <<"///", "1", ".", "START", "///">>)
    /\ ContainsSeq(md_doc.prose, <<"///", "1", ".", "END", "///">>)
    /\ OneCardWithScenarioHeader

\* C8 amended: the text of the scenario holds the tokens ==///C1.START///==
\* and ==///C1.END///== (a decimal id carries the prefix C, the token is
\* wrapped in ==) and one card with the header [!COMMENT 1: A (active)].
C8_ScenarioWrappedTokens ==
  (pc_card \in {"encoded", "decoded"} /\ OneRootCommentByA) =>
    /\ ContainsSeq(md_doc.prose, <<"==", "///", "C", "1", ".", "START", "///", "==">>)
    /\ ContainsSeq(md_doc.prose, <<"==", "///", "C", "1", ".", "END", "///", "==">>)
    /\ OneCardWithScenarioHeader

\* The scenario's package was written as text: the paragraph and one card.
C8_Witness_ScenarioEncoded ==
  /\ pc_card = "encoded"
  /\ OneRootCommentByA
  /\ comments["1"].text = <<"w">>
  /\ md_doc.prose # <<>>
  /\ Len(md_doc.cards) = 1

(***************************************************************************)
(* C2: a run that fails leaves the destination file alone                  *)
(***************************************************************************)
\* C2: in every run of convert_md_to_docx or convert_docx_to_md that ends in
\* an error the destination file is what it was before the run, and the
\* destination is replaced only when the whole pipeline has succeeded.
C2_DestinationReplacedOnlyOnSuccess ==
  /\ pc_conv = "error" => dest = dest_before
  /\ dest # dest_before => pc_conv = "done"

(***************************************************************************)
(* C3: a reply card with an unknown parent                                 *)
(***************************************************************************)
\* The reply cards whose parent is neither a card nor a comment-start span.
OrphanReplies ==
  {c \in DOMAIN reply_cards :
     reply_cards[c] \notin Range(ConvOrderedIds(in_text, reply_cards))}

RunEnded == pc_conv \in {"done", "error"}

ReportsUnknownParent(c) ==
  /\ conv_error.kind = "thread"
  /\ \E i \in DOMAIN conv_error.issues :
       /\ conv_error.issues[i].kind = "unknown parent"
       /\ conv_error.issues[i].child = c
       /\ conv_error.issues[i].parent = reply_cards[c]

ReachedThreadValidation ==
  /\ conv_error.kind \notin {"marker", "converter"}

PruneDone == direction = "docx2md" /\ pc_conv = "done"

\* C10: after prune_unreferenced_new_media every file of the snapshot taken
\* before the run is still there, and a deleted file was created during the
\* run and is the target of no image link of the final text.
C10_PrunerKeepsOldFiles ==
  PruneDone =>
    /\ media_before \subseteq media_files
    /\ \A rel \in files_after \ media_files :
         /\ rel \notin media_before
         /\ rel \notin extract_media_refs_from_markdown(md_links)

\* A new unreferenced file was deleted while an old unreferenced one stayed.
C10_Witness_NewFileDeleted ==
  /\ PruneDone
  /\ files_after \ media_files # {}
  /\ \E rel \in media_before :
       rel \notin extract_media_refs_from_markdown(md_links) /\ rel \in media_files

(***************************************************************************)
(* C11: the thread validator's verdict                                     *)
(***************************************************************************)
\* The candidate links of the run: the ids that name a parent.
CandidateLinks ==
  [c \in {x \in DOMAIN parent_by_id : parent_by_id[x] # ""} |-> parent_by_id[c]]

LinkAcceptable(c) ==
  /\ CandidateLinks[c] \in Range(ordered_started_ids)
  /\ CandidateLinks[c] # c

AcceptableLinks == [c \in {x \in DOMAIN CandidateLinks : LinkAcceptable(x)} |-> CandidateLinks[c]]

\* The id n steps up the chain of acceptable links, "" when the chain ends.
RECURSIVE AncestorAt(_, _)
AncestorAt(c, n) ==
  IF n = 0 THEN c
  ELSE LET below == AncestorAt(c, n - 1)
       IN  IF below \in DOMAIN AcceptableLinks THEN AcceptableLinks[below] ELSE ""

OnCycle(c) == \E n \in 1..MaxComments : AncestorAt(c, n) = c

HasLinkIssue(kind, c) ==
  \E i \in DOMAIN thread_result.issues :
    /\ thread_result.issues[i].kind = kind
    /\ thread_result.issues[i].child = c
    /\ thread_result.issues[i].parent = CandidateLinks[c]

\* C11: a candidate link is accepted exactly when its parent is a known id
\* other than the child; every link to a missing id and every self-parent link
\* is collected, every cycle of accepted links is reported, any issue makes the
\* run end in the error with no parent map, and without an issue the returned
\* parent map is the set of all candidate links.
C11_ThreadVerdict ==
  ThreadDecided =>
    /\ \A c \in DOMAIN CandidateLinks :
         /\ (CandidateLinks[c] = c) <=> HasLinkIssue("own parent", c)
         /\ (CandidateLinks[c] # c /\ CandidateLinks[c] \notin Range(ordered_started_ids))
              <=> HasLinkIssue("unknown parent", c)
         /\ OnCycle(c) =>
              \E i \in DOMAIN thread_result.cycles : c \in Range(thread_result.cycles[i])
    /\ thread_result.ok <=>
         /\ \A c \in DOMAIN CandidateLinks : LinkAcceptable(c)
         /\ \A c \in DOMAIN AcceptableLinks : ~OnCycle(c)
    /\ thread_result.ok <=> pc_thread # "error"
    /\ thread_result.ok => thread_result.parent_by_id = CandidateLinks
    /\ ~thread_result.ok => thread_result.parent_by_id = EmptyMap

\* A run was rejected for an unknown parent and a cycle at once.
C11_Witness_AggregatedIssues ==
  /\ pc_thread = "error"
  /\ thread_result.issues # <<>>
  /\ thread_result.cycles # <<>>
  /\ \E c \in DOMAIN AcceptableLinks : OnCycle(c)

(***************************************************************************)
(* C12: the marker validator raises for every violating id                 *)
(***************************************************************************)
\* The offsets of the spans of one id and edge in the normalized text.
NormalizedSpans(id, edge) ==
  LET normalized == normalize_milestone_tokens_ast(source_text)
  IN  {i \in DOMAIN normalized : normalized[i] = Lexeme("span", id, edge)}

UnequalCounts(id) ==
  Cardinality(NormalizedSpans(id, "s")) # Cardinality(NormalizedSpans(id, "e"))

DuplicatedMarker(id) ==
  Cardinality(NormalizedSpans(id, "s")) > 1 \/ Cardinality(NormalizedSpans(id, "e")) > 1

StartAfterEnd(id) ==
  \E s \in NormalizedSpans(id, "s"), e \in NormalizedSpans(id, "e") : s > e

SpanIssueKinds ==
  {"root", "unbalanced", "duplicate", "end before start"}

\* C12: when some id has unequal start and end counts, more than one start
\* or end, or a start after its end, the validator raises, and the raised
\* error holds an issue for every such id: a count issue for unequal counts,
\* a duplicate issue for a repeated marker, an END-before-START issue for a
\* single pair in the wrong order.
C12_EveryViolatingIdReported ==
  MarkerDecided =>
    \A id \in Range(MarkerIds) :
      /\ (UnequalCounts(id) \/ DuplicatedMarker(id) \/ StartAfterEnd(id)) =>
           /\ pc_marker = "failed"
           /\ \E k \in DOMAIN marker_issues :
                marker_issues[k].id = id /\ marker_issues[k].kind \in SpanIssueKinds
      /\ UnequalCounts(id) => (HasIssue("root", id) \/ HasIssue("unbalanced", id))
      /\ DuplicatedMarker(id) => HasIssue("duplicate", id)
      /\ (StartAfterEnd(id) /\ ~DuplicatedMarker(id)) => HasIssue("end before start", id)

\* Two ids violate at once: 1 has a start only, 2 has its end before its start.
C12_Witness_TwoIdsReported ==
  /\ pc_marker = "failed"
  /\ UnequalCounts("1") /\ ~StartAfterEnd("1")
  /\ StartAfterEnd("2") /\ ~UnequalCounts("2")
  /\ HasIssue("unbalanced", "1")
  /\ HasIssue("end before start", "2")

(***************************************************************************)
(* C13: the highlight-wrapper rule                                         *)
(***************************************************************************)
\* An ordinary highlight ==word== that holds no token starts at offset j.
HighlightAt(j) ==
  /\ j >= 1 /\ j + 2 <= Len(source_text)
  /\ source_text[j].t = "eq"
  /\ source_text[j + 1].t = "word"
  /\ source_text[j + 2].t = "eq"

\* The "==" at offset j is a delimiter of an ordinary highlight.
HighlightDelimiter(j) == HighlightAt(j) \/ HighlightAt(j - 2)

\* The "==" at offset j wraps a token: it is no delimiter of a highlight.
WrapperAt(j) ==
  /\ j \in DOMAIN source_text
  /\ source_text[j].t = "eq"
  /\ ~HighlightDelimiter(j)

WrappedOnOneSideOnly(i) == WrapperAt(i - 1) # WrapperAt(i + 1)

FlaggedOneSided(i) ==
  \E k \in DOMAIN marker_issues :
    /\ marker_issues[k].kind = "one-sided wrapper"
    /\ marker_issues[k].id = source_text[i].id
    /\ marker_issues[k].start = (IF source_text[i].edge = "s" THEN 1 ELSE 0)
    /\ marker_issues[k].line = SourceLineOf(i)

\* The only token of its id, edge and line, so that an issue names it.
OnlyTokenOfItsKind(i) ==
  \A j \in DOMAIN source_text :
    (/\ source_text[j].t = "tok"
     /\ source_text[j].id = source_text[i].id
     /\ source_text[j].edge = source_text[i].edge
     /\ SourceLineOf(j) = SourceLineOf(i)) => j = i

\* C13: a token gets a one-sided-wrapper issue exactly when a wrapping "=="
\* stands on one side of it only; a plain token next to an ordinary
\* ==highlight== and a token wrapped on both sides get none.
C13_OneSidedExactly ==
  MarkerDecided =>
    \A i \in DOMAIN source_text :
      (source_text[i].t = "tok" /\ OnlyTokenOfItsKind(i)) =>
        (FlaggedOneSided(i) <=> WrappedOnOneSideOnly(i))


AnchorEncoded == pc_anchor \in {"encoded", "decoded"}

\* The text one inline of the paragraph stands for after encoding: the token
\* of a root span, nothing for a reply span, the inline's own text otherwise.
EncodedPiece(node) ==
  IF node.t \in {"SpanStart", "SpanEnd"}
    THEN IF node.id \in anchor_child_ids THEN <<>>
         ELSE <<"==", "///">> \o (IF isdigit(node.id) THEN <<"C", node.id>> ELSE <<node.id>>)
                \o <<".", IF node.t = "SpanStart" THEN "START" ELSE "END", "///", "==">>
  ELSE IF node.t = "Space" THEN <<" ">>
  ELSE node.c

RECURSIVE EncodedPieces(_)
EncodedPieces(i) ==
  IF i > Len(ast_inlines) THEN <<>>
  ELSE EncodedPiece(ast_inlines[i]) \o EncodedPieces(i + 1)

\* The position of the first start span of a comment id, 0 when it has none.
FirstStartOf(id) ==
  IF \E i \in DOMAIN ast_inlines : ast_inlines[i] = SpanStart(id)
    THEN CHOOSE i \in DOMAIN ast_inlines :
           /\ ast_inlines[i] = SpanStart(id)
           /\ \A j \in 1..(i - 1) : ast_inlines[j] # SpanStart(id)
    ELSE 0

RootOrderNow ==
  rewrite_comment_spans_to_milestones_in_doc(ast_inlines, anchor_child_ids).start_order

\* C14: after encoding, every span of a root stands in place as one START/END
\* token with its id, every span of a reply is gone without a token, and the
\* root order holds each root with a start span once, by first start span.
C14_TokensForRootsOnly ==
  AnchorEncoded =>
    /\ md_prose = EncodedPieces(1)
    /\ Range(RootOrderNow) = {id \in AnchorIds \ anchor_child_ids : FirstStartOf(id) > 0}
    /\ \A i, j \in DOMAIN RootOrderNow :
         i < j => FirstStartOf(RootOrderNow[i]) < FirstStartOf(RootOrderNow[j])

\* A root started twice and a reply span have been encoded.
C14_Witness_RootTwiceAndReply ==
  /\ pc_anchor = "encoded"
  /\ anchor_child_ids = {"2"}
  /\ \E i, j \in DOMAIN ast_inlines : i < j /\ ast_inlines[i] = SpanStart("1")
                                       /\ ast_inlines[j] = SpanStart("1")
  /\ \E i \in DOMAIN ast_inlines : ast_inlines[i] = SpanEnd("2")


PlaceEmitted == pc_place = "emitted"

\* The roots of the document that have a start span: those get a card.
PlacedRoots ==
  {cid \in PlaceIds \ place_child_ids :
     \E i \in DOMAIN place_blocks : SpanStart(cid) \in Range(place_blocks[i])}

\* The token written for the id is read as a milestone token of that id.
TokenReadable(cid) ==
  LET match == MilestoneTokenMatch(milestone_marker_inline(cid, "s").c, 1)
  IN  match.ok /\ match.id = cid

BlocksWithEnd(cid) ==
  {i \in DOMAIN place_blocks : TokenReadable(cid) /\ SpanEnd(cid) \in Range(place_blocks[i])}

BlocksWithStart(cid) ==
  {i \in DOMAIN place_blocks : TokenReadable(cid) /\ SpanStart(cid) \in Range(place_blocks[i])}

Largest(S) == CHOOSE x \in S : \A y \in S : y <= x

Smallest(S) == CHOOSE x \in S : \A y \in S : x <= y

\* The block a root's card belongs after, 0 for the end of the document.
TargetBlock(cid) ==
  IF BlocksWithEnd(cid) # {} THEN Largest(BlocksWithEnd(cid))
  ELSE IF BlocksWithStart(cid) # {} THEN Smallest(BlocksWithStart(cid))
  ELSE 0

CardPositions(cid) == {p \in DOMAIN place_out : place_out[p] = CardBlock(cid)}

\* The place of the i-th paragraph of the source in the written document.
ParaPosition(i) ==
  CHOOSE p \in DOMAIN place_out :
    /\ place_out[p].t = "Para"
    /\ Cardinality({q \in 1..p : place_out[q].t = "Para"}) = i

\* The first start span of a root: its paragraph and its place in it.
FirstStartBlock(cid) ==
  Smallest({i \in DOMAIN place_blocks : SpanStart(cid) \in Range(place_blocks[i])})

FirstStartInline(cid) ==
  Smallest({k \in DOMAIN place_blocks[FirstStartBlock(cid)] :
              place_blocks[FirstStartBlock(cid)][k] = SpanStart(cid)})

StartsBefore(c1, c2) ==
  \/ FirstStartBlock(c1) < FirstStartBlock(c2)
  \/ /\ FirstStartBlock(c1) = FirstStartBlock(c2)
     /\ FirstStartInline(c1) < FirstStartInline(c2)

\* C15: every root's card stands once in the written document, right after
\* the block with its last END token (only cards in between), else after the
\* block with its first START token, else behind every paragraph; cards that
\* follow the same block stand in root order.
C15_CardPlacement ==
  PlaceEmitted =>
    /\ \A cid \in PlacedRoots :
         /\ Cardinality(CardPositions(cid)) = 1
         /\ \A p \in CardPositions(cid) :
              LET after == IF TargetBlock(cid) = 0 THEN ParaPosition(Len(place_blocks))
                           ELSE ParaPosition(TargetBlock(cid))
              IN  /\ after < p
                  /\ \A q \in (after + 1)..(p - 1) : place_out[q].t = "BlockQuote"
                  /\ TargetBlock(cid) = 0 => \A q \in p..Len(place_out) : place_out[q].t = "BlockQuote"
    /\ \A c1, c2 \in PlacedRoots :
         (c1 # c2 /\ TargetBlock(c1) = TargetBlock(c2) /\ StartsBefore(c1, c2))
           => \A p1 \in CardPositions(c1), p2 \in CardPositions(c2) : p1 < p2

\* Two roots end in the same block, which is not the last one and not the
\* block where the first of them starts.
C15_Witness_TwoCardsAfterOneBlock ==
  /\ PlaceEmitted
  /\ \E c1, c2 \in PlacedRoots :
       /\ c1 # c2
       /\ BlocksWithEnd(c1) # {} /\ BlocksWithEnd(c2) # {}
       /\ TargetBlock(c1) = TargetBlock(c2)
       /\ TargetBlock(c1) < Len(place_blocks)
       /\ FirstStartBlock(c1) < TargetBlock(c1)
       /\ StartsBefore(c2, c1)


\* How many cards of the blocks, nested ones included, carry the comment id.
RECURSIVE CardCount(_, _)
CardCount(blocks, cid) ==
  IF blocks = <<>> THEN 0
  ELSE (IF Head(blocks).marker.id = cid THEN 1 ELSE 0)
         + CardCount(Head(blocks).children, cid)
         + CardCount(Tail(blocks), cid)

\* C16: once the cards are written, every comment of the graph is in exactly
\* one card of the text, whatever the parent links are.
C16_EveryCommentInOneCard ==
  pc_card \in {"encoded", "decoded", "error"} =>
    \A cid \in DOMAIN comments : CardCount(md_doc.cards, cid) = 1


NestDecoded == pc_nest = "decoded"

\* The nested cards of the text with the id of the card around each.
NestedCardsOfDoc ==
  {[card |-> nest_doc[1].children[1], enclosing |-> "1"],
   [card |-> nest_doc[1].children[1].children[1], enclosing |-> "2"]}

\* What the text says about a card: its header kind and the parent of its
\* CARD_META, "" when the key is not there.
WrittenKind(card) == card.header[2]

WrittenParent(card) ==
  IF card.marker.attrs = <<>> THEN "" ELSE card.marker.attrs[1][2]

DecodedParent(card) == nest_cards[card.marker.id].parent

\* C17 as stated: a nested card without a parent in its metadata is decoded
\* with the enclosing card's id as parent whatever its header kind, and a
\* parent given in the metadata is kept.
C17_InheritWhateverKind ==
  NestDecoded =>
    \A n \in NestedCardsOfDoc :
      DecodedParent(n.card) =
        (IF WrittenParent(n.card) = "" THEN n.enclosing ELSE WrittenParent(n.card))

\* C17 amended: a nested REPLY card without a parent in its metadata is
\* decoded with the enclosing card's id as parent, a nested COMMENT card
\* without one is decoded without parent, and a parent given in the metadata
\* is kept.
C17_InheritForReplyOnly ==
  NestDecoded =>
    \A n \in NestedCardsOfDoc :
      DecodedParent(n.card) =
        (IF WrittenParent(n.card) # "" THEN WrittenParent(n.card)
         ELSE IF WrittenKind(n.card) = "REPLY" THEN n.enclosing
         ELSE "")

\* A text was read in which a REPLY card and a COMMENT card are nested, both
\* without a parent in their metadata.
C17_Witness_NestedWithoutParent ==
  /\ NestDecoded
  /\ \E n, o \in NestedCardsOfDoc :
       /\ WrittenParent(n.card) = "" /\ WrittenKind(n.card) = "REPLY"
       /\ WrittenParent(o.card) = "" /\ WrittenKind(o.card) = "COMMENT"


ProperStates == {"active", "resolved"}

\* The spellings that read as resolved once trimmed and lower-cased.
ResolvedSpellings == {"resolved", "Resolved "}

\* The state the text gives for the comment: the state key of its card when
\* it is not blank, else the state of the card's header, else the state key
\* of its span, "" when there is none.
GivenState ==
  IF st_cards # <<>>
    THEN IF st_cards[1].marker.attrs # <<>> /\ st_cards[1].marker.attrs[1][2] \notin {"", " "}
           THEN st_cards[1].marker.attrs[1][2]
           ELSE st_cards[1].header[7]
  ELSE IF st_span.has THEN st_span.value
  ELSE ""

\* The state values of the text written back: the span's state key, the
\* state of the card's header and the state key of its CARD_META.
WrittenStates ==
  {st_out.span[1].kvs[i][2] :
     i \in {j \in DOMAIN st_out.span[1].kvs : st_out.span[1].kvs[j][1] = "state"}}
    \cup {st_out.card[1].header[7]}
    \cup {st_out.card[1].marker.attrs[i][2] :
            i \in {j \in DOMAIN st_out.card[1].marker.attrs :
                     st_out.card[1].marker.attrs[j][1] = "state"}}

\* C18: the state of the graph read from a text is resolved when the value
\* given, trimmed and in lower case, is resolved, and active for every other
\* value, a missing one included; the done flag written is 1 exactly for
\* resolved; the span and the card written back hold that same proper state.
C18_StateNormalized ==
  /\ pc_state \in {"decoded", "written", "emitted"} =>
       st_graph = (IF GivenState \in ResolvedSpellings THEN "resolved" ELSE "active")
  /\ pc_state \in {"written", "emitted"} =>
       /\ st_done \in {"0", "1"}
       /\ st_done = "1" <=> st_graph = "resolved"
  /\ pc_state = "emitted" =>
       /\ WrittenStates \subseteq ProperStates
       /\ WrittenStates = {st_graph}

\* A text whose card says "Resolved " under an active header went into a
\* package and came back.
C18_Witness_OddSpellingResolved ==
  /\ pc_state = "emitted"
  /\ st_cards # <<>>
  /\ st_cards[1].header[7] = "active"
  /\ GivenState = "Resolved "
  /\ st_done = "1"


TextBeforeRepair == repair_texts[1]

TextAfterRepair == repair_texts[2]

HasStart(text, id) == \E i \in DOMAIN text : text[i].t = "start" /\ text[i].id = id

HasEnd(text, id) == \E i \in DOMAIN text : text[i] = EndBlock(id)

\* The ids with a start and no end in the text handed to the repairer.
IdsWithoutEnd ==
  {id \in Range(RepairIds) :
     HasStart(TextBeforeRepair, id) /\ ~HasEnd(TextBeforeRepair, id)}

\* A start of the child names the parent.
NamesParent(child, parent) ==
  \E i \in DOMAIN TextBeforeRepair :
    TextBeforeRepair[i] = StartBlock(child, parent)

ChildrenOfIds(S) == {c \in Range(RepairIds) : \E p \in S : NamesParent(c, p)}

\* The descendants of a comment along the parent keys of the starts; three
\* rounds reach every id of the text.
DescendantsOf(id) ==
  LET d1 == ChildrenOfIds({id})
      d2 == d1 \cup ChildrenOfIds(d1)
  IN  d2 \cup ChildrenOfIds(d2)

DescendantEnds(id) ==
  {i \in DOMAIN TextBeforeRepair :
     TextBeforeRepair[i].t = "end" /\ TextBeforeRepair[i].id \in DescendantsOf(id)}

IsInsertedEnd(piece) == piece.t = "end" /\ piece.id \in IdsWithoutEnd

\* How many pieces of the text before the repair stand before place q of the
\* repaired text.
OffsetBefore(q) ==
  Cardinality({r \in 1..(q - 1) : ~IsInsertedEnd(TextAfterRepair[r])})

\* C19: after the repair every id with a start has an end; the text is the
\* old one with ends added for the ids that had none and nothing else, the
\* count says how many; each added end stands at the latest end of a
\* descendant of its comment, or right behind a start of the comment when no
\* descendant has an end; a text that lacks no end comes back as it was with
\* count 0, and so does the repaired text in a second run.
C19_MissingEndsInserted ==
  /\ pc_repair \in {"once", "twice"} =>
       /\ \A id \in Range(RepairIds) :
            HasStart(TextAfterRepair, id) => HasEnd(TextAfterRepair, id)
       /\ SelectSeq(TextAfterRepair, LAMBDA piece : ~IsInsertedEnd(piece)) = TextBeforeRepair
       /\ repair_counts[1] = Len(TextAfterRepair) - Len(TextBeforeRepair)
       /\ IdsWithoutEnd = {} => TextAfterRepair = TextBeforeRepair /\ repair_counts[1] = 0
       /\ \A q \in DOMAIN TextAfterRepair :
            IsInsertedEnd(TextAfterRepair[q]) =>
              LET id == TextAfterRepair[q].id
              IN  IF DescendantEnds(id) # {}
                    THEN /\ OffsetBefore(q) \in DescendantEnds(id)
                         /\ \A i \in DescendantEnds(id) : i <= OffsetBefore(q)
                    ELSE /\ OffsetBefore(q) \in DOMAIN TextBeforeRepair
                         /\ TextBeforeRepair[OffsetBefore(q)].t = "start"
                         /\ TextBeforeRepair[OffsetBefore(q)].id = id
  /\ pc_repair = "twice" =>
       /\ repair_texts[3] = repair_texts[2]
       /\ repair_counts[2] = 0

\* The repairer ran twice on a text in which a comment without an end has a
\* descendant further down than its children with an end, and at least two
\* ends were added.
C19_Witness_EndAtDescendantEnd ==
  /\ pc_repair = "twice"
  /\ \E id \in IdsWithoutEnd :
       \E i \in DescendantEnds(id) : ~NamesParent(TextBeforeRepair[i].id, id)
  /\ repair_counts[1] >= 2


\* The accepted parent links, child -> parent.
AcceptedParent(cid) == Get(thread_result.parent_by_id, cid)

\* a is the parent, the grandparent or a further ancestor of b.
IsAncestor(a, b) ==
  \E k \in 1..MaxComments : AncestorAt(b, k) = a

\* C20: the writer's order holds every comment behind its parent, and two
\* comments of which neither is an ancestor of the other stand in it as they
\* stood in the order given.
C20_StableTopologicalOrder ==
  pc_thread = "ordered" =>
    /\ \A c \in Range(ordered_started_ids) :
         AcceptedParent(c) # "" =>
           IndexOf(emitted, AcceptedParent(c)) < IndexOf(emitted, c)
    /\ \A a, b \in Range(ordered_started_ids) :
         (a # b /\ ~IsAncestor(a, b) /\ ~IsAncestor(b, a)
            /\ IndexOf(ordered_started_ids, a) < IndexOf(ordered_started_ids, b))
           => IndexOf(emitted, a) < IndexOf(emitted, b)


StoodBefore(a, b) == IndexOf(ordered_started_ids, a) < IndexOf(ordered_started_ids, b)

EmittedBefore(a, b) == IndexOf(emitted, a) < IndexOf(emitted, b)

\* C20 amended: the writer's order holds every comment once and behind its
\* parent, the roots stand in it as they stood in the order given, and an
\* order in which every parent stands before its children comes back as it
\* was.
C20_ParentsFirstRootsStable ==
  pc_thread = "ordered" =>
    /\ Len(emitted) = Len(ordered_started_ids)
    /\ Range(emitted) = Range(ordered_started_ids)
    /\ \A c \in Range(ordered_started_ids) :
         AcceptedParent(c) # "" => EmittedBefore(AcceptedParent(c), c)
    /\ \A a, b \in Range(ordered_started_ids) :
         (AcceptedParent(a) = "" /\ AcceptedParent(b) = "" /\ StoodBefore(a, b))
           => EmittedBefore(a, b)
    /\ (\A c \in Range(ordered_started_ids) :
          AcceptedParent(c) # "" => StoodBefore(AcceptedParent(c), c))
         => emitted = ordered_started_ids

\* Two replies to one comment were given with the comment between them, and
\* the writer's order has them the other way round.
C20_Witness_SiblingsSwapped ==
  /\ pc_thread = "ordered"
  /\ Len(ordered_started_ids) = 3
  /\ AcceptedParent(ordered_started_ids[1]) = ordered_started_ids[2]
  /\ AcceptedParent(ordered_started_ids[3]) = ordered_started_ids[2]
  /\ emitted = <<ordered_started_ids[2], ordered_started_ids[3], ordered_started_ids[1]>>

(***************************************************************************)
(* C21  Stable identifiers are unique within one write                     *)
(***************************************************************************)
WriteDone == pc_write = "written"

\* The comments whose paragraph id (durable id) the writer derived.
DurableIdGiven(c) == Strip(w_durable[c]) # ""

\* C21: after rewrite_comments_extended_state no paragraph id and no durable
\* id is all-zero when the writer derived it, no two distinct comments share a
\* paragraph id and no two share a durable id, also when some comments carry
\* ids taken from their cards and the others get derived ids.
C21_StableIdsUnique ==
  WriteDone =>
    /\ \A c \in DOMAIN w_meta :
         /\ Strip(w_para[c]) = "" => w_meta[c].para_id # "00000000"
         /\ ~DurableIdGiven(c) => w_meta[c].durable_id # "00000000"
    /\ \A c, d \in DOMAIN w_meta :
         c # d => /\ w_meta[c].para_id # w_meta[d].para_id
                  /\ w_meta[c].durable_id # w_meta[d].durable_id

\* Two comments whose cards carry the same paragraph id have been written.
C21_SamePreferredWritten ==
  /\ WriteDone
  /\ \E c, d \in DOMAIN w_meta : c # d /\ w_para[c] # "" /\ w_para[c] = w_para[d]

\* A comment without an id in its card was written before a comment whose
\* card carries the id the writer derives for the first.
C21_DerivedThenPreferred ==
  /\ WriteDone
  /\ \E c, d \in DOMAIN w_meta :
       /\ c # d /\ w_para[c] = "" /\ w_para[d] # ""
       /\ w_comments[c][2] = w_meta[c].para_id
       /\ w_meta[c].para_id = w_meta[d].para_id

(***************************************************************************)
(* C22  The comment-adjacent parts are regenerated from the graph          *)
(***************************************************************************)
\* The entries of commentsExtended.xml keyed by the paragraph id of comment c.
ExtEntriesOf(c) == {i \in DOMAIN w_parts.ext : w_parts.ext[i].paraId = w_meta[c].para_id}

ParentParaId(c) == IF Get(w_parent, c) = "" THEN "" ELSE w_meta[Get(w_parent, c)].para_id

ParaIdsOf(part) == {e.paraId : e \in Range(part)}

DurableIdsOf(part) == {e.durableId : e \in Range(part)}

\* C22: after a write every comment has exactly one extended-state entry
\* keyed by its paragraph id, with the done flag of its state and the
\* paragraph id of its parent as parent link (none for a root); the ids part
\* and the extended-state part hold the same paragraph ids, the extensible
\* part and the ids part the same durable ids, and no entry of the parts of
\* before the write is left.
C22_PartsRegenerated ==
  WriteDone =>
    /\ \A c \in Range(w_ordered) :
         /\ Cardinality(ExtEntriesOf(c)) = 1
         /\ \A i \in ExtEntriesOf(c) :
              /\ w_parts.ext[i].done = done_flag_of(w_state[c])
              /\ w_parts.ext[i].paraIdParent = ParentParaId(c)
    /\ ParaIdsOf(w_parts.ids) = ParaIdsOf(w_parts.ext)
    /\ DurableIdsOf(w_parts.extensible) = DurableIdsOf(w_parts.ids)
    /\ ParaIdsOf(w_parts.ext) = {w_meta[c].para_id : c \in Range(w_ordered)}
    /\ DurableIdsOf(w_parts.ids) = {w_meta[c].durable_id : c \in Range(w_ordered)}
    /\ Len(w_parts.ext) = Len(w_ordered)
    /\ Len(w_parts.ids) = Len(w_ordered)
    /\ Len(w_parts.extensible) = Len(w_ordered)

(***************************************************************************)
(* C23  Relationship and content-type upsert                               *)
(***************************************************************************)
\* The entries of a part that the call is about: the relationships of the
\* type, or the overrides of the part name.
UpsertEntries(root) ==
  IF rels_op = "relationship"
    THEN {i \in DOMAIN root : root[i].tag = "Relationship" /\ root[i].Type = CommentsExtRelType}
    ELSE {i \in DOMAIN root : root[i].tag = "Override" /\ root[i].PartName = CommentsExtPartName}

\* C23: after ensure_word_relationship (ensure_word_content_type_override)
\* the part holds as many entries of the relationship type (part name) as
\* before if it held one, else one more, whose Id no other relationship
\* uses; a second call changes nothing and returns false.
C23_UpsertIdempotent ==
  /\ Len(rels_parts) >= 2 =>
       LET before == rels_parts[1]
           after == rels_parts[2]
       IN  /\ UpsertEntries(before) # {} =>
                Cardinality(UpsertEntries(after)) = Cardinality(UpsertEntries(before))
           /\ UpsertEntries(before) = {} =>
                /\ Cardinality(UpsertEntries(after)) = 1
                /\ Len(after) = Len(before) + 1
                /\ rels_changed[1]
                /\ rels_op = "relationship" =>
                     \A i \in DOMAIN after, j \in UpsertEntries(after) :
                       (i # j /\ after[i].tag = "Relationship") => after[i].Id # after[j].Id
  /\ Len(rels_parts) >= 3 =>
       /\ rels_parts[3] = rels_parts[2]
       /\ rels_changed[2] = FALSE

\* A relationship was added to a part whose Ids hold rId02 and no number
\* above 2, and the call was made once more.
C23_Witness_NewRelationshipTwice ==
  /\ pc_rels = "twice"
  /\ rels_op = "relationship"
  /\ UpsertEntries(rels_parts[1]) = {}
  /\ \E i \in DOMAIN rels_parts[1] : rels_parts[1][i].Id = "rId02"
  /\ \E i \in UpsertEntries(rels_parts[2]) : rels_parts[2][i].Id = "rId3"

(***************************************************************************)
(* C24  Anchor synthesis for the replies                                   *)
(***************************************************************************)
SynthReplies == DOMAIN syn_parent

\* The number of markers of a kind a comment has in the story parts.
MarkersIn(stories, bucket, cid) == CountOf(collect_story_marker_counts(stories)[bucket], cid)

HasAllMarkers(stories, cid) ==
  \A bucket \in {"start", "end", "ref"} : MarkersIn(stories, bucket, cid) >= 1

UnresolvedReplies == {syn_out.unresolved[i].reply : i \in DOMAIN syn_out.unresolved}

\* C24: when ensure_thread_reply_anchors returns, every reply, also a reply
\* of a reply that got its own anchors in the same call, has a range start, a
\* range end and a reference in the story parts; when a reply lacks a marker
\* and its parent lacks one of the three when the turn of the reply comes (a
\* parent that is a reply has had its turn before), the error is raised, it
\* lists that reply, and no marker is inserted for the reply.
C24_AnchorsSynthesizedOrRaised ==
  /\ pc_synth = "returned" => \A c \in SynthReplies : HasAllMarkers(syn_out.stories, c)
  /\ pc_synth \in {"returned", "error"} =>
       \A c \in SynthReplies :
         (~HasAllMarkers(syn_stories, c) /\ ~HasAllMarkers(syn_out.stories, syn_parent[c])) =>
           /\ pc_synth = "error"
           /\ c \in UnresolvedReplies
           /\ \A bucket \in {"start", "end", "ref"} :
                MarkersIn(syn_out.stories, bucket, c) = MarkersIn(syn_stories, bucket, c)

\* The call returned for a reply 2 and a reply 3 of that reply, neither of
\* which had a marker before; the anchors of 3 are cloned from those of 2.
C24_Witness_ReplyOfReplySynthesized ==
  /\ pc_synth = "returned"
  /\ syn_parent = [c \in {"2", "3"} |-> IF c = "2" THEN "1" ELSE "2"]
  /\ \A bucket \in {"start", "end", "ref"} :
       /\ MarkersIn(syn_stories, bucket, "2") = 0
       /\ MarkersIn(syn_out.stories, bucket, "3") = 1

(***************************************************************************)
(* C29  The markers synthesize_child_markers_in_story inserts              *)
(***************************************************************************)
SynthDone == pc_synth \in {"returned", "error"}

\* The elements without children of one story part, in document order.
LeavesOf(story) == SelectSeq(IterElems(story), LAMBDA e : e.children = <<>>)

MarkerPositions(leaves, tag, cid) ==
  {i \in DOMAIN leaves : leaves[i].tag = tag /\ leaves[i].id = cid}

\* The kinds requested for reply c: those it has no marker of before the call.
Requested(bucket, c) == MarkersIn(syn_stories, bucket, c) = 0

TagOfBucket(bucket) ==
  IF bucket = "start" THEN "commentRangeStart"
  ELSE IF bucket = "end" THEN "commentRangeEnd" ELSE "commentReference"

\* A marker of the story parts after the call that the call inserted.
IsInserted(e) ==
  /\ e.tag \in MarkerTags
  /\ e.id \in SynthReplies
  /\ \E bucket \in {"start", "end", "ref"} : TagOfBucket(bucket) = e.tag /\ Requested(bucket, e.id)

\* The parent has one range start and one range end, in one story part, the
\* start before the end.
ParentRangeProper(p) ==
  /\ MarkersIn(syn_stories, "start", p) = 1
  /\ MarkersIn(syn_stories, "end", p) = 1
  /\ \E s \in DOMAIN syn_stories :
       \E i \in MarkerPositions(LeavesOf(syn_stories[s]), "commentRangeStart", p),
          j \in MarkerPositions(LeavesOf(syn_stories[s]), "commentRangeEnd", p) : i < j

\* C29: the synthesis inserts at most one marker of each requested kind for a
\* reply and none of a kind not requested, keeps all existing elements in
\* their order, puts the range start of the reply after a range start of the
\* parent and its range end before a range end of the parent, so that the
\* synthesized range of the reply lies inside the range of the parent.
C29_SynthesizedMarkersPlaced ==
  SynthDone =>
    /\ Len(syn_out.stories) = Len(syn_stories)
    /\ \A c \in SynthReplies, bucket \in {"start", "end", "ref"} :
         IF Requested(bucket, c)
           THEN MarkersIn(syn_out.stories, bucket, c) <= 1
           ELSE MarkersIn(syn_out.stories, bucket, c) = MarkersIn(syn_stories, bucket, c)
    /\ \A s \in DOMAIN syn_stories :
         LET leaves == LeavesOf(syn_out.stories[s])
         IN  /\ SelectSeq(leaves, LAMBDA e : ~IsInserted(e)) = LeavesOf(syn_stories[s])
             /\ \A c \in SynthReplies :
                  /\ Requested("start", c) =>
                       \A i \in MarkerPositions(leaves, "commentRangeStart", c) :
                         \E j \in MarkerPositions(leaves, "commentRangeStart", syn_parent[c]) :
                           j < i
                  /\ Requested("end", c) =>
                       \A i \in MarkerPositions(leaves, "commentRangeEnd", c) :
                         \E j \in MarkerPositions(leaves, "commentRangeEnd", syn_parent[c]) :
                           i < j
                  /\ (/\ Requested("start", c) /\ Requested("end", c)
                      /\ ParentRangeProper(syn_parent[c])) =>
                       \A i \in MarkerPositions(leaves, "commentRangeStart", c),
                          j \in MarkerPositions(leaves, "commentRangeEnd", c) : i < j

\* Two replies of comment 1 got their markers in one paragraph: the starts
\* follow the start of the parent, the ends stand before its end, and the
\* references follow its reference.
C29_Witness_TwoRepliesInsideParent ==
  /\ pc_synth = "returned"
  /\ syn_stories = <<Story(<<Paragraph(<<RangeStart("1"), TextRun, RangeEnd("1"),
                                         RefRun("1")>>)>>)>>
  /\ syn_out.stories =
       <<Story(<<Paragraph(<<RangeStart("1"), RangeStart("2"), RangeStart("3"), TextRun,
                             RangeEnd("3"), RangeEnd("2"), RangeEnd("1"),
                             Elem("r", "", <<Elem("commentReference", "1", <<>>),
                                            Elem("commentReference", "2", <<>>),
                                            Elem("commentReference", "3", <<>>)>>)>>)>>)>>

(***************************************************************************)
(* C25  The paragraph id the reader reports for a comment                  *)
(***************************************************************************)
ReaderDone == pc_reader = "read"

CommentElem(c) == rd_comments[CHOOSE k \in DOMAIN rd_comments : rd_comments[k].id = c]

LastParagraphId(c) == CommentElem(c).paragraphs[Len(CommentElem(c).paragraphs)]

\* C25 as stated: the paragraph id reported for a comment with several
\* paragraphs is the id of its last paragraph, whatever commentsIds.xml and
\* commentsExtended.xml hold.
C25_LastParagraphAlways ==
  ReaderDone =>
    \A c \in DOMAIN rd_out.comments :
      (Len(CommentElem(c).paragraphs) > 1 /\ LastParagraphId(c) # "") =>
        rd_out.comments[c].para_id = LastParagraphId(c)

\* The ids part has as many entries as comments.xml has comments.
IdsAligned == Len(rd_ids) = Len(rd_comments)

\* The comment a paragraph id is joined to: the comment that has a paragraph
\* of that id, else the comment at the position of the id in an aligned ids
\* part.
OwnerOf(p) ==
  IF \E k \in DOMAIN rd_comments : p \in Range(rd_comments[k].paragraphs) \ {""}
    THEN rd_comments[CHOOSE k \in DOMAIN rd_comments :
                       p \in Range(rd_comments[k].paragraphs)].id
  ELSE IF IdsAligned /\ \E k \in DOMAIN rd_ids : rd_ids[k].paraId = p
    THEN rd_comments[CHOOSE k \in DOMAIN rd_ids :
                       /\ rd_ids[k].paraId = p
                       /\ \A j \in 1..(k - 1) : rd_ids[j].paraId # p].id
  ELSE ""

ExEntriesOf(c) == {i \in DOMAIN rd_ext : OwnerOf(rd_ext[i].paraId) = c}

\* The last paragraph id of the comment that is not empty, "" if none.
LastGivenParagraphId(c) ==
  LET given == {i \in DOMAIN CommentElem(c).paragraphs : CommentElem(c).paragraphs[i] # ""}
  IN  IF given = {} THEN "" ELSE CommentElem(c).paragraphs[Largest(given)]

\* C25, amended: the reader takes the id of the last paragraph that has one
\* and joins the entries of the extended-state part on every paragraph id of
\* the comment; the id it reports is the paraId of the last extended-state
\* entry joined to the comment if there is one, else the id at the position of
\* the comment in the ids part if that part has as many entries as there are
\* comments, else the id of the last paragraph.
C25_LastParagraphUnlessPartsOverride ==
  ReaderDone =>
    \A c \in DOMAIN rd_out.comments :
      /\ rd_out.comments[c].para_id =
           IF ExEntriesOf(c) # {} THEN rd_ext[Largest(ExEntriesOf(c))].paraId
           ELSE IF IdsAligned
             THEN rd_ids[CHOOSE k \in DOMAIN rd_comments : rd_comments[k].id = c].paraId
           ELSE LastGivenParagraphId(c)
      /\ rd_out.comments[c].resolved =
           (ExEntriesOf(c) # {} /\ rd_ext[Largest(ExEntriesOf(c))].done = "1")

\* Comment 1 has the paragraphs 1A and 1B, an extended-state entry names 1A,
\* and the reader reports 1A for the comment and takes the done flag of that
\* entry.
C25_Witness_FirstParagraphReported ==
  /\ ReaderDone
  /\ CommentElem("1").paragraphs = <<"1A", "1B">>
  /\ rd_ids = <<>>
  /\ rd_ext = <<[paraId |-> "1A", paraIdParent |-> "", done |-> "1"]>>
  /\ rd_out.comments["1"].para_id = "1A"
  /\ rd_out.comments["1"].resolved


(***************************************************************************)
(* C26                                                                     *)
(***************************************************************************)
TokenDone == pc_token = "decoded"

\* The token of tok_id is read back as tok_id with its edge.
TokenReadBack == tok_decoded = [ok |-> TRUE, id |-> tok_id, edge |-> tok_edge]

\* C26: decoding the token text that milestone_marker_inline produces for a
\* comment id yields the same id and the same edge, and the tokens of two
\* distinct ids never decode to one id (for example the ids 1 and C1).
C26_TokenRoundTrip ==
  TokenDone =>
    /\ TokenReadBack
    /\ tok_id # tok_other => tok_decoded.id # tok_other_decoded.id

\* The ids 1 and C1 have been written and read back.
C26_Scenario_1_And_C1 ==
  /\ TokenDone
  /\ tok_id = <<"1">>
  /\ tok_other = <<"C", "1">>

\* An id that does not start with C followed by a digit is read back, and
\* no other such id shares its token.
StartsWithCDigit(cid) == Len(cid) >= 2 /\ cid[1] = "C" /\ isdigit(cid[2])

C26_RoundTripUnlessCDigit ==
  TokenDone /\ ~StartsWithCDigit(tok_id) =>
    /\ TokenReadBack
    /\ (tok_id # tok_other /\ ~StartsWithCDigit(tok_other))
         => tok_decoded.id # tok_other_decoded.id


(***************************************************************************)
(* C27                                                                     *)
(***************************************************************************)
NestValidated == pc_nest \in {"passed", "failed"}

\* The ids for which the validator demanded exactly one START and one END.
DemandedAsRoot == {nest_issues[i].id : i \in {j \in DOMAIN nest_issues : nest_issues[j].kind = "root"}}

\* Card 2 is a REPLY inside card 1 whose CARD_META names no parent, the
\* prose holds the tokens of card 1 only, and card 3 names its parent.
NestedReplyOmitsParent ==
  /\ nest_doc[1].children[1].header = HeaderText("REPLY", "2", "A", "active")
  /\ nest_doc[1].children[1].marker.attrs = <<>>
  /\ nest_doc[1].marker.attrs = <<>>
  /\ nest_doc[1].children[1].children[1].marker.attrs = <<<<"parent", "2">>>>
  /\ nest_anchored = {"1"}

\* C27: the validator demands exactly one START and one END for an id only
\* if the decoded card of that id has no parent; a nested REPLY card that
\* leaves parent out of its CARD_META and has no tokens raises no issue.
C27_ValidatorAgreesWithDecoder ==
  NestValidated =>
    /\ \A cid \in DemandedAsRoot : cid \in DOMAIN nest_cards /\ nest_cards[cid].parent = ""
    /\ NestedReplyOmitsParent => nest_issues = <<>>

\* The nested reply without a parent key has been decoded and validated.
C27_Scenario_NestedReplyValidated == NestValidated /\ NestedReplyOmitsParent

\* In that text the decoder gives card 2 the parent 1 and the validator
\* demands the pair of card 2.
C27_DecoderRootsOnly ==
  NestValidated /\ NestedReplyOmitsParent =>
    /\ nest_cards["2"].parent = "1"
    /\ "2" \in DemandedAsRoot


(***************************************************************************)
(* C28                                                                     *)
(***************************************************************************)
TopoDone == pc_topo = "done"

NoDuplicates(seq) == \A i, j \in DOMAIN seq : seq[i] = seq[j] => i = j

\* The returned list holds every distinct non-empty id of ordered_ids once
\* and nothing else.
TopoResultComplete ==
  /\ NoDuplicates(topo_result)
  /\ Range(topo_result) = Range(topo_ordered) \ {""}

\* C28: topological_comment_order terminates for every list of ids and every
\* parent map (cycles, self-parents and parents outside the list included),
\* and the list it returns holds every distinct non-empty id of the input
\* exactly once and nothing else.
C28_TopoTerminatesComplete == <>TopoDone /\ [](TopoDone => TopoResultComplete)

\* A call with a repeated id, an empty id, a self-parent and a cycle has returned.
C28_Witness_CycleAndDuplicateOrdered ==
  /\ TopoDone
  /\ topo_ordered = <<"1", "", "1">>
  /\ topo_parent["1"] = "1"

\* A call on a cycle of two ids and one id with a parent outside the list
\* has returned after the fallback.
C28_Witness_FallbackOrdered ==
  /\ TopoDone
  /\ topo_ordered = <<"1", "2", "3">>
  /\ topo_parent = [c \in {"1", "2", "3"} |-> IF c = "1" THEN "2" ELSE IF c = "2" THEN "1" ELSE UnknownId]
  /\ topo_result = <<"3", "1", "2">>


(***************************************************************************)
(* C30                                                                     *)
(***************************************************************************)
FlatDone == pc_flat = "done"

\* The offset of the "[" that the "]" at offset close closes.
RECURSIVE OpenOf(_, _, _)
OpenOf(text, j, depth) ==
  IF j < 1 THEN 0
  ELSE IF text[j] = "]" THEN OpenOf(text, j - 1, depth + 1)
  ELSE IF text[j] = "[" THEN (IF depth = 0 THEN j ELSE OpenOf(text, j - 1, depth - 1))
  ELSE OpenOf(text, j - 1, depth)

\* The offsets of the "]" of the comment-end spans that hold something.
EndWrapperCloses(text) ==
  {c \in 2..(Len(text) - 1) : text[c] = "]" /\ IsEndAttrs(text[c + 1]) /\ text[c - 1] # "["}

\* The comment-end span closed at offset c holds another comment-end marker.
EnclosesEndMarker(text, c) ==
  \E j \in (OpenOf(text, c - 1, 0) + 1)..(c - 1) : IsEndAttrs(text[j])

\* The comment-end span closed at offset c holds comment-end markers and
\* blanks only.
RECURSIVE OnlyEndMarkers(_, _, _)
OnlyEndMarkers(text, j, c) ==
  IF j >= c THEN j = c
  ELSE IF text[j] = " " THEN OnlyEndMarkers(text, j + 1, c)
  ELSE IF EndMarkerAt(text, j) THEN OnlyEndMarkers(text, j + 3, c)
  ELSE FALSE

HoldsOnlyEndMarkers(text, c) ==
  /\ EnclosesEndMarker(text, c)
  /\ OnlyEndMarkers(text, OpenOf(text, c - 1, 0) + 1, c)

\* The comment-end attribute blocks of a text, in reading order.
EndIdsOf(text) == SelectSeq(text, IsEndAttrs)

\* What is left when the brackets are taken away.
Unbracketed(text) == SelectSeq(text, LAMBDA lexeme : lexeme \notin {"[", "]"})

\* Every comment-end id of the input occurs as often in the text, the inner
\* ones before their former wrapper.
EndIdsKept(text) == EndIdsOf(text) = EndIdsOf(flat_input)

\* The number of "[" that open a span holding something: what a pass of the
\* loop has left to do at most.
OpenWrappers(text) ==
  Cardinality({i \in DOMAIN text : text[i] = "[" /\ At(text, i + 1) # "]"})

\* A pass that goes on to another pass leaves fewer open wrappers, so the
\* loop ends after at most OpenWrappers(markdown_text) passes.
PassesDecrease ==
  (pc_flat = "loop" /\ pc_flat' = "loop") =>
     OpenWrappers(flat_updated') < OpenWrappers(flat_updated)

\* C30: normalize_nested_comment_end_markers terminates on every input and
\* returns a text in which no comment-end wrapper encloses other comment-end
\* markers; every comment-end id of the input, inner or wrapper, occurs in
\* the output as often as in the input, as sibling markers with the inner
\* ones before the former wrapper.
C30_FlattenedNoNestedEnds ==
  [][/\ PassesDecrease
     /\ pc_flat' = "done" =>
          /\ \A c \in EndWrapperCloses(flat_updated') : ~EnclosesEndMarker(flat_updated', c)
          /\ EndIdsKept(flat_updated')]_vars

\* C30 amended: the function terminates and returns a text in which no
\* comment-end wrapper holds comment-end markers and blanks only; every
\* comment-end id occurs as often as before and in the same order, the
\* markers of a flattened wrapper before the marker that replaces it; a
\* wrapper that also holds other text stays a wrapper.
C30_FlattenedMarkerOnlyWrappers ==
  [][/\ PassesDecrease
     /\ pc_flat' = "done" =>
          /\ \A c \in EndWrapperCloses(flat_updated') : ~HoldsOnlyEndMarkers(flat_updated', c)
          /\ EndIdsKept(flat_updated')
          /\ Unbracketed(flat_updated') = Unbracketed(flat_input)]_vars

\* The text of the test nested_end_wrapper_with_multiple_inner_markers, two
\* markers in a wrapper, itself in a wrapper: all three wrappers and markers
\* end as siblings after two passes.
C30_Witness_TwoInnerMarkersFlattened ==
  /\ FlatDone
  /\ flat_input = <<"x">> \o EndWrapper(EndWrapper(EndMarker("1") \o EndMarker("0"), "1"), "0")
  /\ flat_updated = <<"x">> \o EndMarker("1") \o EndMarker("0") \o EndMarker("1") \o EndMarker("0")
  /\ flat_changed = 2

\* A wrapper that holds a word and a marker has been left as it is.
C30_Scenario_WrapperWithTextKept ==
  /\ FlatDone
  /\ flat_input = EndWrapper(<<"x">> \o EndMarker("1"), "0")
  /\ flat_updated = flat_input

====
